---------------------------- MODULE Spec2Model ----------------------------
(***************************************************************************)
(* Hybrid search of the mslilly repository: tokenizer, BM25 keyword        *)
(* ranking, semantic ranking, Reciprocal Rank Fusion and the three search  *)
(* modes (keywordSearch, searchPosts, hybridSearch).                       *)
(*                                                                         *)
(* Strings are sequences of one-character strings.  Scores that the code   *)
(* holds as floating point numbers are exact rationals [num, den] here     *)
(* (RRF scores, cosine similarities) or fixed-point values (BM25, whose    *)
(* inverse document frequency is a logarithm).                             *)
(***************************************************************************)
EXTENDS Integers, Sequences, FiniteSets, TLC

VARIABLES
    fSemantic,        \* SpecFuse: first argument of fuseRRF
    fKeyword,         \* SpecFuse: second argument of fuseRRF
    fK,               \* SpecFuse: the RRF constant k
    fOut,             \* SpecFuse: the value fuseRRF returned
    fpc,              \* SpecFuse: "ready" | "done"
    envKey,           \* process.env.GOOGLE_GENERATIVE_AI_API_KEY is set
    embeddingsFile,   \* public/embeddings.json: whether it can be read, and its posts
    cachedEmbeddings, \* module variable cachedEmbeddings: whether set, and the array
    call,             \* the search invocation in progress, or idle
    ret,              \* what the last finished invocation returned or threw
    embedCalls,       \* number of embed() requests the running/last invocation made
    embedState,       \* its embed() promise: "none" | "pending" | "resolved" | "rejected"
    loads,            \* loadEmbeddings: reads of embeddings.json so far, and whether
                      \* its last call returned the cached array
    steps,            \* hybridSearch: what the running/last invocation did, in order
    memo,             \* SpecRepeat: an earlier outcome the caller kept
    suspended,        \* SpecConc: invocations waiting at their embed() call while
                      \* another invocation runs
    gen,              \* SpecGen: the run of the generate-embeddings script
    tok,              \* SpecTok: a call of tokenize
    api,              \* SpecApi: a request to GET /api/search or POST /api/chat
    pg,               \* SpecPosts: a request to GET /api/posts
    ui                \* SpecIndex: the state of the PostsIndex / Search components

vars == <<fSemantic, fKeyword, fK, fOut, fpc, envKey, embeddingsFile,
          cachedEmbeddings, call, ret, embedCalls, embedState, loads, steps,
          memo, suspended, gen, tok, api, pg, ui>>

fuseVars == <<fSemantic, fKeyword, fK, fOut, fpc>>
auxVars == <<memo, suspended>>
extVars == <<gen, tok, api, pg, ui>>
searchVars == <<envKey, embeddingsFile, cachedEmbeddings, call, ret, embedCalls,
                embedState, loads, steps, memo, suspended>>

---------------------------------------------------------------------------
(* Bounds of the model *)

\* longest ranked list handed to fuseRRF in SpecFuse
MaxLen == 3
\* largest corpus (number of records of embeddings.json)
MaxDocs == 2
\* largest topK a caller passes
MaxTopK == 2
\* SpecConc: most invocations waiting at embed() while another one runs
MaxSuspended == 2
\* SpecGen: most posts in posts_1.json
MaxPosts == 2
\* SpecTok: longest text handed to tokenize
MaxText == 3

---------------------------------------------------------------------------
(* Characters and strings *)

UpperChars == <<"A","B","C","D","E","F","G","H","I","J","K","L","M",
                "N","O","P","Q","R","S","T","U","V","W","X","Y","Z">>
LowerChars == <<"a","b","c","d","e","f","g","h","i","j","k","l","m",
                "n","o","p","q","r","s","t","u","v","w","x","y","z">>
DigitChars == <<"0","1","2","3","4","5","6","7","8","9">>

Range(s) == { s[i] : i \in DOMAIN s }

\* the letters of U+00C0..U+00DE that toLowerCase changes, and what it makes
\* of them (U+00D7, the multiplication sign, is no letter)
UpperLatin1Chars == <<"À","Á","Â","Ã","Ä","Å","Æ","Ç","È","É","Ê","Ë","Ì","Í","Î",
                    "Ï","Ð","Ñ","Ò","Ó","Ô","Õ","Ö","Ø","Ù","Ú","Û","Ü","Ý","Þ">>
LowerLatin1Chars == <<"à","á","â","ã","ä","å","æ","ç","è","é","ê","ë","ì","í","î",
                    "ï","ð","ñ","ò","ó","ô","õ","ö","ø","ù","ú","û","ü","ý","þ">>

\* String.prototype.toLowerCase, one character.  The alphabet of the model is
\* U+0000..U+00FF: there toLowerCase changes A..Z and the letters above, and
\* nothing else.
CasedChars == UpperChars \o UpperLatin1Chars
LowerOf == [c \in Range(CasedChars) |->
               (LowerChars \o LowerLatin1Chars)[CHOOSE i \in DOMAIN CasedChars :
                                                     CasedChars[i] = c]]
LowerChar(c) == IF c \in DOMAIN LowerOf THEN LowerOf[c] ELSE c

toLowerCase(text) == [i \in DOMAIN text |-> LowerChar(text[i])]

\* the character class [a-z0-9]
AlnumLowerChars == Range(LowerChars) \cup Range(DigitChars)
IsAlnumLower(c) == c \in AlnumLowerChars

\* the character class \w
WordChars == Range(LowerChars) \cup Range(UpperChars) \cup Range(DigitChars) \cup {"_"}
IsWordChar(c) == c \in WordChars

\* the WhiteSpace and LineTerminator characters of U+0000..U+00FF, which trim
\* strips and parseInt skips: TAB, LF, line tabulation, FF, CR, SPACE and
\* NO-BREAK SPACE
WhitespaceChars == {"\t", "\n", "", "\f", "\r", " ", " "}
IsWhitespace(c) == c \in WhitespaceChars

\* query.trim() === ''
TrimIsEmpty(text) == \A i \in DOMAIN text : IsWhitespace(text[i])

\* a plausible slip: only the empty string counts as an empty query
IsEmptyQuery_noTrim(query) == Len(query) = 0

\* !query || query.trim() === ''
IsEmptyQuery(query) == Len(query) = 0 \/ TrimIsEmpty(query)

RECURSIVE SplitRec(_, _, _, _, _)
SplitRec(s, i, cur, acc, prevSep) ==
    IF i > Len(s) THEN Append(acc, cur)
    ELSE IF ~IsAlnumLower(s[i])
         THEN IF prevSep THEN SplitRec(s, i + 1, cur, acc, TRUE)
              ELSE SplitRec(s, i + 1, <<>>, Append(acc, cur), TRUE)
         ELSE SplitRec(s, i + 1, Append(cur, s[i]), acc, FALSE)

\* text.split(/[^a-z0-9]+/)
SplitNonAlnum(s) == SplitRec(s, 1, <<>>, <<>>, FALSE)

\* a plausible slip: the empty strings that split leaves at the ends are kept
tokenize_keepEmpty(text) == SplitNonAlnum(toLowerCase(text))

tokenize(text) ==
    SelectSeq(SplitNonAlnum(toLowerCase(text)), LAMBDA token : Len(token) > 0)

\* whether term occurs in doc at position i
MatchesAt(term, doc, i) ==
    /\ i + Len(term) - 1 <= Len(doc)
    /\ \A j \in 1..Len(term) : doc[i + j - 1] = term[j]

\* String.prototype.includes
Includes(doc, term) == \E i \in 1..(Len(doc) + 1) : MatchesAt(term, doc, i)

---------------------------------------------------------------------------
(* Rationals for the BM25 scores (in 1/10000) and the cosine similarities *)

Rat(n, d) == [num |-> n, den |-> d]
RatLess(a, b) == a.num * b.den < b.num * a.den
RatEq(a, b) == a.num * b.den = b.num * a.den

\* a plausible slip: a sort that is not stable, equal scores come out reversed
SortDesc_unstable(seq, scores) ==
    LET pos(i) ==
            1 + Cardinality({ j \in DOMAIN seq : RatLess(scores[i], scores[j]) })
              + Cardinality({ j \in DOMAIN seq : j > i /\ RatEq(scores[i], scores[j]) })
    IN  [p \in DOMAIN seq |-> seq[CHOOSE i \in DOMAIN seq : pos(i) = p]]

\* seq.sort((a, b) => score(b) - score(a)), scores[i] being the score of
\* seq[i]: Array.prototype.sort is stable, so equal scores keep their input order
SortDesc(seq, scores) ==
    LET pos(i) ==
            1 + Cardinality({ j \in DOMAIN seq : RatLess(scores[i], scores[j]) })
              + Cardinality({ j \in 1..(i - 1) : RatEq(scores[i], scores[j]) })
    IN  [p \in DOMAIN seq |-> seq[CHOOSE i \in DOMAIN seq : pos(i) = p]]

---------------------------------------------------------------------------
(* IEEE 754 doubles for the RRF scores *)

\* A positive double is [hi, lo, exp]: its 53-bit significand is
\* hi * 2^27 + lo, with 2^25 <= hi < 2^26 and 0 <= lo < 2^27, and its value
\* is the significand times 2^exp.  Every operation rounds to nearest, ties to
\* even, as the + and / of the code do.
DoubleZero == [hi |-> 0, lo |-> 0, exp |-> 0]

\* the significand hi * 2^27 + lo, made one larger when up holds, as a double
RoundUp(hi, lo, exp, up) ==
    IF ~up THEN [hi |-> hi, lo |-> lo, exp |-> exp]
    ELSE IF lo + 1 < 2^27 THEN [hi |-> hi, lo |-> lo + 1, exp |-> exp]
    ELSE IF hi + 1 < 2^26 THEN [hi |-> hi + 1, lo |-> 0, exp |-> exp]
    ELSE [hi |-> 2^25, lo |-> 0, exp |-> exp + 1]

\* p / n for integers 0 < p <= n < 2^11: one bit before the point, then 52
\* bits of the quotient by long division, rounded by the remainder
DoubleDiv(p, n) ==
    LET t == CHOOSE s \in 0..11 : p * 2^s >= n /\ (s = 0 \/ p * 2^(s - 1) < n)
        r0 == p * 2^t - n
        d1 == (r0 * 2^20) \div n
        r1 == (r0 * 2^20) % n
        d2 == (r1 * 2^20) \div n
        r2 == (r1 * 2^20) % n
        d3 == (r2 * 2^12) \div n
        r3 == (r2 * 2^12) % n
        hi == 2^25 + d1 * 32 + d2 \div 2^15
        lo == (d2 % 2^15) * 2^12 + d3
    IN  RoundUp(hi, lo, 0 - (t + 52), 2 * r3 > n \/ (2 * r3 = n /\ lo % 2 = 1))

\* the bits of y below the last place of a sum whose exponent is d above y's:
\* 0 none set, 1 less than half a unit, 2 half a unit, 3 more
Shifted(y, d) ==
    IF d = 0 THEN [hi |-> y.hi, lo |-> y.lo, frac |-> 0]
    ELSE IF d <= 26
    THEN LET rem == y.lo % 2^d
         IN  [hi |-> y.hi \div 2^d,
              lo |-> (y.hi % 2^d) * 2^(27 - d) + y.lo \div 2^d,
              frac |-> IF rem = 0 THEN 0 ELSE IF rem < 2^(d - 1) THEN 1
                       ELSE IF rem = 2^(d - 1) THEN 2 ELSE 3]
    ELSE IF d = 27
    THEN [hi |-> 0, lo |-> y.hi,
          frac |-> IF y.lo = 0 THEN 0 ELSE IF y.lo < 2^26 THEN 1
                   ELSE IF y.lo = 2^26 THEN 2 ELSE 3]
    ELSE IF d <= 52
    THEN LET rem == y.hi % 2^(d - 27)
             half == 2^(d - 28)
         IN  [hi |-> 0, lo |-> y.hi \div 2^(d - 27),
              frac |-> IF rem > half THEN 3
                       ELSE IF rem = half THEN (IF y.lo = 0 THEN 2 ELSE 3)
                       ELSE IF rem = 0 /\ y.lo = 0 THEN 0 ELSE 1]
    ELSE IF d = 53
    THEN [hi |-> 0, lo |-> 0, frac |-> IF y.hi = 2^25 /\ y.lo = 0 THEN 2 ELSE 3]
    ELSE [hi |-> 0, lo |-> 0, frac |-> 1]

\* a + b for doubles that are zero or positive
DoubleAdd(a, b) ==
    IF a = DoubleZero THEN b
    ELSE IF b = DoubleZero THEN a
    ELSE LET x == IF a.exp >= b.exp THEN a ELSE b
             y == IF a.exp >= b.exp THEN b ELSE a
             s == Shifted(y, x.exp - y.exp)
             lo == (x.lo + s.lo) % 2^27
             hi == x.hi + s.hi + (x.lo + s.lo) \div 2^27
         IN  IF hi < 2^26
             THEN RoundUp(hi, lo, x.exp, s.frac = 3 \/ (s.frac = 2 /\ lo % 2 = 1))
             ELSE LET half == lo \div 2 + (hi % 2) * 2^26
                  IN  RoundUp(hi \div 2, half, x.exp + 1,
                              lo % 2 = 1 /\ (s.frac > 0 \/ half % 2 = 1))

\* a < b, the sign of the comparator's b.rrfScore - a.rrfScore
DoubleLess(a, b) ==
    IF b = DoubleZero THEN FALSE
    ELSE IF a = DoubleZero THEN TRUE
    ELSE \/ a.exp < b.exp
         \/ a.exp = b.exp /\ a.hi < b.hi
         \/ a.exp = b.exp /\ a.hi = b.hi /\ a.lo < b.lo

\* fusedResults.sort((a, b) => b.rrfScore - a.rrfScore), scores[i] being the
\* rrfScore of seq[i]: the sort is stable
SortByRrfScore(seq, scores) ==
    LET pos(i) ==
            1 + Cardinality({ j \in DOMAIN seq : DoubleLess(scores[i], scores[j]) })
              + Cardinality({ j \in 1..(i - 1) : scores[i] = scores[j] })
    IN  [p \in DOMAIN seq |-> seq[CHOOSE i \in DOMAIN seq : pos(i) = p]]

---------------------------------------------------------------------------
(* Array helpers *)

\* a plausible slip: the cut keeps one entry more than topK
Slice_oneMore(seq, topK) == SubSeq(seq, 1, IF topK + 1 < Len(seq) THEN topK + 1 ELSE Len(seq))

\* Array.prototype.slice(0, topK)
Slice(seq, topK) == SubSeq(seq, 1, IF topK < Len(seq) THEN topK ELSE Len(seq))

---------------------------------------------------------------------------
(* Document keys: `${postIndex}-${mediaIndex}` and back *)

RECURSIVE ToDigits(_)
\* String(n) for an integer n >= 0
ToDigits(n) ==
    IF n < 10 THEN << DigitChars[n + 1] >>
    ELSE Append(ToDigits(n \div 10), DigitChars[(n % 10) + 1])

DigitValue(c) == (CHOOSE i \in DOMAIN DigitChars : DigitChars[i] = c) - 1

RECURSIVE ParseNumber(_)
\* Number(s) for a string of decimal digits; Number('') is 0
ParseNumber(s) ==
    IF Len(s) = 0 THEN 0
    ELSE 10 * ParseNumber(SubSeq(s, 1, Len(s) - 1)) + DigitValue(s[Len(s)])

\* String(n) for any integer n
NumberToString(n) == IF n < 0 THEN <<"-">> \o ToDigits(-n) ELSE ToDigits(n)

getKey(postIndex, mediaIndex) ==
    NumberToString(postIndex) \o <<"-">> \o NumberToString(mediaIndex)

RECURSIVE SplitDashRec(_, _, _, _)
SplitDashRec(s, i, cur, acc) ==
    IF i > Len(s) THEN Append(acc, cur)
    ELSE IF s[i] = "-" THEN SplitDashRec(s, i + 1, <<>>, Append(acc, cur))
         ELSE SplitDashRec(s, i + 1, Append(cur, s[i]), acc)

\* key.split('-')
SplitDash(s) == SplitDashRec(s, 1, <<>>, <<>>)

---------------------------------------------------------------------------
(* Reciprocal Rank Fusion *)

\* the default value of fuseRRF's parameter k
DefaultK == 60

\* rrfScores.get(key) || 0
MapGet(m, key) ==
    IF \E i \in DOMAIN m : m[i].key = key
    THEN m[CHOOSE i \in DOMAIN m : m[i].key = key].score
    ELSE DoubleZero

\* rrfScores.set(key, score): a Map keeps the insertion order of its keys, and
\* setting a key it already holds keeps that key's place
MapSet(m, key, score) ==
    IF \E i \in DOMAIN m : m[i].key = key
    THEN [i \in DOMAIN m |-> IF m[i].key = key THEN [key |-> key, score |-> score] ELSE m[i]]
    ELSE Append(m, [key |-> key, score |-> score])

RECURSIVE AddContributions_rankWeighted(_, _, _, _)
\* a plausible slip: the contribution is rank / (k + rank)
AddContributions_rankWeighted(m, ranks, i, k) ==
    IF i > Len(ranks) THEN m
    ELSE LET key == getKey(ranks[i].postIndex, ranks[i].mediaIndex)
             currentScore == MapGet(m, key)
         IN  AddContributions_rankWeighted(
                 MapSet(m, key, DoubleAdd(currentScore, DoubleDiv(ranks[i].rank, k + ranks[i].rank))),
                 ranks, i + 1, k)

RECURSIVE AddContributions(_, _, _, _)
\* ranks.forEach((result) => rrfScores.set(key, currentScore + 1 / (k + result.rank)))
AddContributions(m, ranks, i, k) ==
    IF i > Len(ranks) THEN m
    ELSE LET key == getKey(ranks[i].postIndex, ranks[i].mediaIndex)
             currentScore == MapGet(m, key)
         IN  AddContributions(
                 MapSet(m, key, DoubleAdd(currentScore, DoubleDiv(1, k + ranks[i].rank))),
                 ranks, i + 1, k)

\* Array.from(rrfScores.entries()).map(([key, score]) => ...)
FusedOf(entry) ==
    LET parts == SplitDash(entry.key)
    IN  [postIndex |-> ParseNumber(parts[1]),
         mediaIndex |-> ParseNumber(parts[2]),
         rrfScore |-> entry.score]

\* a plausible slip: the keyword contribution overwrites the semantic one
fuseRRF_overwrite(semanticRanks, keywordRanks, k) ==
    LET m1 == AddContributions(<<>>, semanticRanks, 1, k)
        RECURSIVE Over(_, _)
        Over(m, i) ==
            IF i > Len(keywordRanks) THEN m
            ELSE Over(MapSet(m, getKey(keywordRanks[i].postIndex, keywordRanks[i].mediaIndex),
                             DoubleDiv(1, k + keywordRanks[i].rank)), i + 1)
        m2 == Over(m1, 1)
        fusedResults == [i \in DOMAIN m2 |-> FusedOf(m2[i])]
    IN  SortByRrfScore(fusedResults,
                       [i \in DOMAIN fusedResults |-> fusedResults[i].rrfScore])

\* a plausible slip: only documents ranked by both lists are kept
fuseRRF_intersection(semanticRanks, keywordRanks, k) ==
    LET m1 == AddContributions(<<>>, semanticRanks, 1, k)
        m2 == AddContributions(m1, keywordRanks, 1, k)
        both == SelectSeq(m2, LAMBDA e :
                    /\ \E i \in DOMAIN semanticRanks :
                           getKey(semanticRanks[i].postIndex, semanticRanks[i].mediaIndex) = e.key
                    /\ \E i \in DOMAIN keywordRanks :
                           getKey(keywordRanks[i].postIndex, keywordRanks[i].mediaIndex) = e.key)
        fusedResults == [i \in DOMAIN both |-> FusedOf(both[i])]
    IN  SortByRrfScore(fusedResults,
                       [i \in DOMAIN fusedResults |-> fusedResults[i].rrfScore])

\* a plausible slip: only documents of the semantic list are kept
fuseRRF_semanticOnly(semanticRanks, keywordRanks, k) ==
    LET m1 == AddContributions(<<>>, semanticRanks, 1, k)
        m2 == AddContributions(m1, keywordRanks, 1, k)
        fusedResults == [i \in DOMAIN m1 |-> FusedOf(m2[i])]
    IN  SortByRrfScore(fusedResults,
                       [i \in DOMAIN fusedResults |-> fusedResults[i].rrfScore])

fuseRRF(semanticRanks, keywordRanks, k) ==
    LET m1 == AddContributions(<<>>, semanticRanks, 1, k)
        m2 == AddContributions(m1, keywordRanks, 1, k)
        fusedResults == [i \in DOMAIN m2 |-> FusedOf(m2[i])]
    IN  SortByRrfScore(fusedResults,
                       [i \in DOMAIN fusedResults |-> fusedResults[i].rrfScore])


---------------------------------------------------------------------------
(* BM25 of the okapibm25 package, as getKeywordRanks calls it *)

\* BM25 options passed by getKeywordRanks: k1 = 1.3 and b = 0.9, times ten
K1x10 == 13
Bx10 == 9

\* getWordCount: ((corpus || "").match(/\w+/g) || []).length
getWordCount(doc) ==
    Cardinality({ i \in DOMAIN doc :
                    IsWordChar(doc[i]) /\ (i = 1 \/ ~IsWordChar(doc[i - 1])) })

RECURSIVE CountMatches(_, _, _)
CountMatches(term, doc, i) ==
    IF i + Len(term) - 1 > Len(doc) THEN 0
    ELSE IF MatchesAt(term, doc, i) THEN 1 + CountMatches(term, doc, i + Len(term))
         ELSE CountMatches(term, doc, i + 1)

\* getTermFrequency: ((corpus || "").match(new RegExp(term, "g")) || []).length,
\* the non-overlapping occurrences of term anywhere in the raw document
getTermFrequency(term, doc) == CountMatches(term, doc, 1)

\* natural logarithms of 1..12 in units of 1/10000
LnE4 == <<0, 6931, 10986, 13863, 16094, 17918, 19459, 20794, 21972, 23026, 23979, 24849>>

\* getIDF: Math.log((N - n + 0.5) / (n + 0.5) + 1) = ln((2N + 2) / (2n + 1)),
\* n the number of documents with document.includes(term); units of 1/10000
getIDF(term, documents) ==
    LET n == Cardinality({ d \in DOMAIN documents : Includes(documents[d], term) })
    IN  LnE4[2 * Len(documents) + 2] - LnE4[2 * n + 1]

RECURSIVE SumSeq(_)
SumSeq(s) == IF Len(s) = 0 THEN 0 ELSE s[1] + SumSeq(Tail(s))

\* the number NaN: NaN > 0 and 0 > NaN are false (RatLess), and a sort
\* comparator that returns NaN leaves the pair in place (RatEq)
NaN == Rat(0, 0)

\* idf * tf * (k1 + 1) / (tf + k1 * (1 - b + b * documentLength / averageDocumentLength)),
\* numerator and denominator multiplied by 100 * totalLength; units of 1/10000.
\* With totalLength = 0 the average length is 0 / nDocs = 0, documentLength /
\* averageDocumentLength is 0 / 0 and the score is NaN.
BM25Term(idf, tf, documentLength, nDocs, totalLength) ==
    IF totalLength = 0 THEN NaN
    ELSE Rat((idf * tf * (K1x10 + 10) * 10 * totalLength)
             \div (100 * tf * totalLength
                   + K1x10 * (10 - Bx10) * totalLength
                   + K1x10 * Bx10 * documentLength * nDocs),
             10000)

\* BM25(documents, keywords, { k1: 1.3, b: 0.9 }): one score per document, the
\* sum of the scores of the keywords, NaN when one of them is NaN
BM25(documents, keywords) ==
    LET documentLengths == [d \in DOMAIN documents |-> getWordCount(documents[d])]
        totalLength == SumSeq(documentLengths)
        terms(d) == [w \in DOMAIN keywords |->
                        BM25Term(getIDF(keywords[w], documents),
                                 getTermFrequency(keywords[w], documents[d]),
                                 documentLengths[d], Len(documents), totalLength)]
    IN  [d \in DOMAIN documents |->
            IF \E w \in DOMAIN keywords : terms(d)[w] = NaN THEN NaN
            ELSE Rat(SumSeq([w \in DOMAIN keywords |-> terms(d)[w].num]), 10000)]

\* a plausible slip: the ranking is sorted lowest score first
getKeywordRanks_ascending(query, embeddings) ==
    IF IsEmptyQuery(query) THEN <<>>
    ELSE LET queryTokens == tokenize(query) IN
         IF Len(queryTokens) = 0 THEN <<>>
         ELSE LET documents == [i \in DOMAIN embeddings |-> embeddings[i].title]
                  scores == BM25(documents, queryTokens)
                  withScores == [i \in DOMAIN embeddings |->
                                    [postIndex |-> embeddings[i].postIndex,
                                     mediaIndex |-> embeddings[i].mediaIndex,
                                     score |-> scores[i]]]
                  filtered == SelectSeq(withScores, LAMBDA r : RatLess(Rat(0, 1), r.score))
                  sorted == SortDesc(filtered, [i \in DOMAIN filtered |->
                                Rat(0 - filtered[i].score.num, filtered[i].score.den)])
              IN  [i \in DOMAIN sorted |->
                      [postIndex |-> sorted[i].postIndex,
                       mediaIndex |-> sorted[i].mediaIndex,
                       rank |-> i,
                       score |-> sorted[i].score]]

\* a plausible slip: the filter keeps documents whose score is 0
getKeywordRanks_noFilter(query, embeddings) ==
    IF IsEmptyQuery(query) THEN <<>>
    ELSE LET queryTokens == tokenize(query) IN
         IF Len(queryTokens) = 0 THEN <<>>
         ELSE LET documents == [i \in DOMAIN embeddings |-> embeddings[i].title]
                  scores == BM25(documents, queryTokens)
                  withScores == [i \in DOMAIN embeddings |->
                                    [postIndex |-> embeddings[i].postIndex,
                                     mediaIndex |-> embeddings[i].mediaIndex,
                                     score |-> scores[i]]]
                  sorted == SortDesc(withScores, [i \in DOMAIN withScores |-> withScores[i].score])
              IN  [i \in DOMAIN sorted |->
                      [postIndex |-> sorted[i].postIndex,
                       mediaIndex |-> sorted[i].mediaIndex,
                       rank |-> i,
                       score |-> sorted[i].score]]

getKeywordRanks(query, embeddings) ==
    IF IsEmptyQuery(query) THEN <<>>
    ELSE LET queryTokens == tokenize(query) IN
         IF Len(queryTokens) = 0 THEN <<>>
         ELSE LET documents == [i \in DOMAIN embeddings |-> embeddings[i].title]
                  scores == BM25(documents, queryTokens)
                  withScores == [i \in DOMAIN embeddings |->
                                    [postIndex |-> embeddings[i].postIndex,
                                     mediaIndex |-> embeddings[i].mediaIndex,
                                     score |-> scores[i]]]
                  filtered == SelectSeq(withScores, LAMBDA r : RatLess(Rat(0, 1), r.score))
                  sorted == SortDesc(filtered, [i \in DOMAIN filtered |-> filtered[i].score])
              IN  [i \in DOMAIN sorted |->
                      [postIndex |-> sorted[i].postIndex,
                       mediaIndex |-> sorted[i].mediaIndex,
                       rank |-> i,
                       score |-> sorted[i].score]]

---------------------------------------------------------------------------
(* Semantic ranking *)

Dot(a, b) == SumSeq([i \in DOMAIN a |-> a[i] * b[i]])

\* the magnitude of a vector; the vectors of the model have integer magnitudes
Magnitude(a) == CHOOSE m \in 0..Dot(a, a) : m * m = Dot(a, a)

\* cosineSimilarity of the ai package: dot product over the product of
\* magnitudes, and 0 when either vector has magnitude 0
cosineSimilarity(a, b) ==
    IF Dot(a, a) = 0 \/ Dot(b, b) = 0 THEN Rat(0, 1)
    ELSE Rat(Dot(a, b), Magnitude(a) * Magnitude(b))

\* getSemanticRanks after the embed call returned queryEmbedding
SemanticRanksOf(queryEmbedding, embeddings) ==
    LET withScores == [i \in DOMAIN embeddings |->
                          [postIndex |-> embeddings[i].postIndex,
                           mediaIndex |-> embeddings[i].mediaIndex,
                           similarity |-> cosineSimilarity(queryEmbedding,
                                                           embeddings[i].embedding)]]
        sorted == SortDesc(withScores, [i \in DOMAIN withScores |-> withScores[i].similarity])
    IN  [i \in DOMAIN sorted |->
            [postIndex |-> sorted[i].postIndex,
             mediaIndex |-> sorted[i].mediaIndex,
             rank |-> i]]

---------------------------------------------------------------------------
(* The corpus, the queries and the query embeddings of the model *)

TitleGardenLong == <<"L","i","l","l","y"," ","d","i","g","s"," ","t","h","e"," ","g","a","r","d","e","n">>
TitleCheese == <<"L","i","l","l","y"," ","e","a","t","s"," ","c","h","e","e","s","e">>
TitleGarden == <<"g","a","r","d","e","n">>
TitlePad == <<"l","i","l","l","y"," ","p","a","d">>

PostA == [postIndex |-> 0, mediaIndex |-> 0, title |-> TitleGardenLong,
          uri |-> "media/posts/a.jpg", isVideo |-> FALSE, creationTimestamp |-> 1600000000,
          embedding |-> <<1, 0>>]
PostB == [postIndex |-> 0, mediaIndex |-> 1, title |-> TitleCheese,
          uri |-> "media/posts/b.mp4", isVideo |-> TRUE, creationTimestamp |-> 1600000100,
          embedding |-> <<0, 1>>]
PostC == [postIndex |-> 1, mediaIndex |-> 0, title |-> TitleGarden,
          uri |-> "media/posts/c.jpg", isVideo |-> FALSE, creationTimestamp |-> 1600000200,
          embedding |-> <<0, 1>>]
PostD == [postIndex |-> 12, mediaIndex |-> 0, title |-> TitlePad,
          uri |-> "media/posts/d.jpg", isVideo |-> FALSE, creationTimestamp |-> 1600000300,
          embedding |-> <<3, 4>>]

\* a second record with the title of PostC
PostE == [postIndex |-> 1, mediaIndex |-> 1, title |-> TitleGarden,
          uri |-> "media/posts/e.jpg", isVideo |-> FALSE, creationTimestamp |-> 1600000400,
          embedding |-> <<1, 0>>]

Posts == {PostA, PostB, PostC, PostD, PostE}

\* records a hand-made embeddings.json can hold, which generate-embeddings
\* never writes: a vector of another length, a negative index
PostShort == [postIndex |-> 2, mediaIndex |-> 0, title |-> TitleGarden,
              uri |-> "media/posts/s.jpg", isVideo |-> FALSE,
              creationTimestamp |-> 1600000500, embedding |-> <<1>>]
PostNeg == [postIndex |-> -1, mediaIndex |-> 0, title |-> TitleGarden,
            uri |-> "media/posts/n.jpg", isVideo |-> FALSE,
            creationTimestamp |-> 1600000600, embedding |-> <<1, 0>>]

\* a record whose title holds no word: a corpus of such records has the
\* average document length 0
PostDash == [postIndex |-> 3, mediaIndex |-> 0, title |-> <<"-">>,
             uri |-> "media/posts/t.jpg", isVideo |-> FALSE,
             creationTimestamp |-> 1600000700, embedding |-> <<0, 1>>]

\* the corpora: up to MaxDocs records with distinct (postIndex, mediaIndex)
Corpora ==
    { s \in UNION { [1..n -> Posts] : n \in 0..MaxDocs } :
        \A i, j \in DOMAIN s : i # j => s[i] # s[j] }

QueryEmpty == <<>>
QuerySpace == <<" ">>
QueryTab == <<"\t", "\n">>
QueryGarden == <<"g","a","r","d","e","n">>
QueryLilly == <<"L","i","l","l","y">>
QueryGar == <<"g","a","r">>
QueryDash == <<"-">>
QueryTheGarden == <<"t","h","e"," ","G","a","r","d","e","n">>

Queries == {QueryEmpty, QuerySpace, QueryTab, QueryGarden, QueryLilly, QueryGar, QueryDash,
            QueryTheGarden}

\* the vectors the embedding provider may return for a query
QueryEmbeddings == { <<1, 0>>, <<0, 1>>, <<4, 3>>, <<0, 0>> }

TopKs == 1..MaxTopK

---------------------------------------------------------------------------
(* The search modes *)

\* no invocation is suspended.  A suspended invocation waits at "embed" (its
\* embed() call is pending) or at "all" (getSemanticRanks has settled, with
\* the error or the vector and the ranks recorded here, and hybridSearch has
\* not yet resumed from its await of Promise.all)
IdleCall ==
    [active |-> FALSE, mode |-> "none", query |-> <<>>, topK |-> 0, keywordRanks |-> <<>>,
     at |-> "none", error |-> "none", queryEmbedding |-> <<>>, semanticRanks |-> <<>>]

NoRet ==
    [status |-> "none", mode |-> "none", query |-> <<>>, topK |-> 0,
     results |-> <<>>, error |-> "none", queryEmbedding |-> <<>>,
     keywordRanks |-> <<>>, semanticRanks |-> <<>>]

NoFile == [exists |-> FALSE, posts |-> <<>>]
NoCache == [loaded |-> FALSE, posts |-> <<>>]

\* loadEmbeddings: the cached array, or the posts of embeddings.json, or a throw
LoadOk == cachedEmbeddings.loaded \/ embeddingsFile.exists
LoadedPosts ==
    IF cachedEmbeddings.loaded THEN cachedEmbeddings.posts ELSE embeddingsFile.posts
\* a plausible slip: the array read from the file is returned but not kept
CacheAfterLoad_noCache == cachedEmbeddings

CacheAfterLoad ==
    IF LoadOk THEN [loaded |-> TRUE, posts |-> LoadedPosts] ELSE cachedEmbeddings

\* embeddingMap.get(key): new Map(embeddings.map(...)) keeps the last record of a key
HasPost(embeddings, key) ==
    \E i \in DOMAIN embeddings :
        getKey(embeddings[i].postIndex, embeddings[i].mediaIndex) = key
GetPost(embeddings, key) ==
    LET last == CHOOSE i \in DOMAIN embeddings :
                    /\ getKey(embeddings[i].postIndex, embeddings[i].mediaIndex) = key
                    /\ \A j \in DOMAIN embeddings :
                           getKey(embeddings[j].postIndex, embeddings[j].mediaIndex) = key
                               => j <= i
    IN  embeddings[last]

\* a plausible slip: the score of the ranking is not carried into the result
SearchResultOf_noScore(post, similarity) ==
    [postIndex |-> post.postIndex, mediaIndex |-> post.mediaIndex, title |-> post.title,
     uri |-> post.uri, isVideo |-> post.isVideo,
     creationTimestamp |-> post.creationTimestamp, similarity |-> Rat(0, 1)]

SearchResultOf(post, similarity) ==
    [postIndex |-> post.postIndex, mediaIndex |-> post.mediaIndex, title |-> post.title,
     uri |-> post.uri, isVideo |-> post.isVideo,
     creationTimestamp |-> post.creationTimestamp, similarity |-> similarity]

\* whether every entry of the list resolves to a record of the store
AllResolve(list, embeddings) ==
    \A i \in DOMAIN list : HasPost(embeddings, getKey(list[i].postIndex, list[i].mediaIndex))

\* keywordRanks.slice(0, topK).map(...) of keywordSearch
KeywordResults(keywordRanks, embeddings, topK) ==
    LET top == Slice(keywordRanks, topK)
    IN  [i \in DOMAIN top |->
            SearchResultOf(GetPost(embeddings, getKey(top[i].postIndex, top[i].mediaIndex)),
                           top[i].score)]

\* fusedResults.slice(0, topK).map(...) of hybridSearch
HybridResults(fusedResults, embeddings, topK) ==
    LET top == Slice(fusedResults, topK)
    IN  [i \in DOMAIN top |->
            SearchResultOf(GetPost(embeddings, getKey(top[i].postIndex, top[i].mediaIndex)),
                           top[i].rrfScore)]

\* searchPosts after the embed call returned queryEmbedding
SemanticResults(queryEmbedding, embeddings, topK) ==
    LET results == [i \in DOMAIN embeddings |->
                       SearchResultOf(embeddings[i],
                                      cosineSimilarity(queryEmbedding, embeddings[i].embedding))]
    IN  Slice(SortDesc(results, [i \in DOMAIN results |-> results[i].similarity]), topK)

Returned(mode, query, topK, results, queryEmbedding, keywordRanks, semanticRanks) ==
    [status |-> "ok", mode |-> mode, query |-> query, topK |-> topK,
     results |-> results, error |-> "none", queryEmbedding |-> queryEmbedding,
     keywordRanks |-> keywordRanks, semanticRanks |-> semanticRanks]

Threw(mode, query, topK, error, keywordRanks) ==
    [status |-> "error", mode |-> mode, query |-> query, topK |-> topK,
     results |-> <<>>, error |-> error, queryEmbedding |-> <<>>,
     keywordRanks |-> keywordRanks, semanticRanks |-> <<>>]

\* an invocation suspended at its await, embed() pending
Pending(mode, query, topK, keywordRanks) ==
    [active |-> TRUE, mode |-> mode, query |-> query, topK |-> topK,
     keywordRanks |-> keywordRanks,
     at |-> "embed", error |-> "none", queryEmbedding |-> <<>>, semanticRanks |-> <<>>]

\* the promise of getSemanticRanks has settled: hybridSearch is still
\* suspended at await Promise.all and resumes in a later microtask
SemanticSettled(pending, error, queryEmbedding, semanticRanks) ==
    [pending EXCEPT !.at = "all", !.error = error,
                    !.queryEmbedding = queryEmbedding, !.semanticRanks = semanticRanks]

\* an outcome thrown after embed() resolved: the ranks computed so far are kept
ThrewAfterEmbed(mode, query, topK, error, queryEmbedding, keywordRanks, semanticRanks) ==
    [status |-> "error", mode |-> mode, query |-> query, topK |-> topK,
     results |-> <<>>, error |-> error, queryEmbedding |-> queryEmbedding,
     keywordRanks |-> keywordRanks, semanticRanks |-> semanticRanks]

\* a plausible slip: hybrid mode degrades to the keyword results when the
\* semantic ranking failed
HybridOnSemanticFailure_degrade(query, topK, error, keywordRanks) ==
    Returned("hybrid", query, topK,
             KeywordResults(keywordRanks, LoadedPosts, topK),
             <<>>, keywordRanks, <<>>)

\* await Promise.all([getSemanticRanks(...), ...]) with getSemanticRanks rejected:
\* hybridSearch rejects with the same error
HybridOnSemanticFailure(query, topK, error, keywordRanks) ==
    Threw("hybrid", query, topK, error, keywordRanks)

NoLoads == [reads |-> 0, cached |-> FALSE]

\* loadEmbeddings succeeding: it reads embeddings.json only while nothing is
\* cached, and otherwise returns the cached array
LoadsAfterLoad ==
    IF cachedEmbeddings.loaded
    THEN [reads |-> loads.reads, cached |-> TRUE]
    ELSE [reads |-> loads.reads + 1, cached |-> FALSE]

\* a plausible slip: one embed request per record of the corpus
IssueEmbed_perDocument(count, embeddings) == count + Len(embeddings)

\* await embed({ model, value: query }): one request for the whole query
IssueEmbed(count, embeddings) == count + 1

\* cosineSimilarity throws InvalidArgumentError for vectors of different lengths
SameDimension(queryEmbedding, embeddings) ==
    \A i \in DOMAIN embeddings : Len(embeddings[i].embedding) = Len(queryEmbedding)

\* a plausible slip: the ranking sorts the cached array itself
CacheAfterSearch_sortInPlace(queryEmbedding) ==
    [loaded |-> cachedEmbeddings.loaded,
     posts |-> SortDesc(cachedEmbeddings.posts,
                        [i \in DOMAIN cachedEmbeddings.posts |->
                            cosineSimilarity(queryEmbedding,
                                             cachedEmbeddings.posts[i].embedding)])]

\* the cached array after a ranking: embeddings.map(...) builds a new array and
\* sort orders that one
CacheAfterSearch(queryEmbedding) == cachedEmbeddings

\* a plausible slip: the lexical ranking is started after the semantic one was awaited
HybridStartEvents_sequential(keyConfigured) ==
    IF keyConfigured
    THEN <<"semantic:start", "await", "keyword:start", "keyword:done">>
    ELSE <<"semantic:start", "semantic:failed", "await">>

\* hybridSearch up to its await: getSemanticRanks is called and runs to its
\* embed() call (or throws for the missing key), getKeywordRanks is called and
\* runs to its end, and then Promise.all is awaited
HybridStartEvents(keyConfigured) ==
    IF keyConfigured
    THEN <<"semantic:start", "keyword:start", "keyword:done", "await">>
    ELSE <<"semantic:start", "semantic:failed", "keyword:start", "keyword:done", "await">>

\* getSemanticRanks settling: it returns its ranks, or rejects
SemanticSettleEvents(semanticOk) ==
    IF semanticOk THEN <<"semantic:done">> ELSE <<"semantic:failed">>

\* hybridSearch after its await
HybridSettleEvents(semanticOk, resolved) ==
    IF ~semanticOk THEN <<"throw">>
    ELSE IF resolved THEN <<"fuse", "return">>
    ELSE <<"fuse", "throw">>

\* a plausible slip: a key that is not in the store is skipped
HybridOutcome_dropMissing(query, topK, queryEmbedding, keywordRanks, semanticRanks, embeddings) ==
    LET fusedResults == fuseRRF(semanticRanks, keywordRanks, DefaultK)
        found == SelectSeq(Slice(fusedResults, topK),
                           LAMBDA e : HasPost(embeddings, getKey(e.postIndex, e.mediaIndex)))
    IN  Returned("hybrid", query, topK, HybridResults(found, embeddings, topK),
                 queryEmbedding, keywordRanks, semanticRanks)

\* hybridSearch from fuseRRF on: a key of the top topK that is not in the store
\* throws inside map, and the search rejects
HybridOutcome(query, topK, queryEmbedding, keywordRanks, semanticRanks, embeddings) ==
    LET fusedResults == fuseRRF(semanticRanks, keywordRanks, DefaultK)
    IN  IF AllResolve(Slice(fusedResults, topK), embeddings)
        THEN Returned("hybrid", query, topK,
                      HybridResults(fusedResults, embeddings, topK),
                      queryEmbedding, keywordRanks, semanticRanks)
        ELSE ThrewAfterEmbed("hybrid", query, topK, "not_found",
                             queryEmbedding, keywordRanks, semanticRanks)

\* a plausible slip: BM25 is run for a query without tokens too
KeywordEvents_noGuard(query) == <<"tokenize", "bm25">>

\* what getKeywordRanks does for a non-blank query: it tokenizes the query and
\* returns [] when there is no token, before BM25 is called
KeywordEvents(query) ==
    IF Len(tokenize(query)) = 0 THEN <<"tokenize">> ELSE <<"tokenize", "bm25">>

\* keywordSearch(query, topK): no await, the call runs to its end
KeywordSearch(query, topK) ==
    /\ ~call.active
    /\ ret.status = "none"
    /\ embedCalls' = 0
    /\ embedState' = "none"
    /\ steps' = IF IsEmptyQuery(query) \/ ~LoadOk THEN <<>> ELSE KeywordEvents(query)
    /\ IF IsEmptyQuery(query)
       THEN /\ ret' = Returned("keyword", query, topK, <<>>, <<>>, <<>>, <<>>)
            /\ UNCHANGED <<cachedEmbeddings, loads>>
       ELSE IF ~LoadOk
       THEN /\ ret' = Threw("keyword", query, topK, "load", <<>>)
            /\ UNCHANGED <<cachedEmbeddings, loads>>
       ELSE LET embeddings == LoadedPosts
                keywordRanks == getKeywordRanks(query, embeddings)
            IN  /\ cachedEmbeddings' = CacheAfterLoad
                /\ loads' = LoadsAfterLoad
                /\ ret' = IF AllResolve(Slice(keywordRanks, topK), embeddings)
                          THEN Returned("keyword", query, topK,
                                        KeywordResults(keywordRanks, embeddings, topK),
                                        <<>>, keywordRanks, <<>>)
                          ELSE Threw("keyword", query, topK, "not_found", keywordRanks)
    /\ UNCHANGED <<call, envKey, embeddingsFile>>
    /\ UNCHANGED fuseVars
    /\ UNCHANGED extVars
    /\ UNCHANGED auxVars

\* searchPosts(query, topK) up to its await of embed()
SearchPostsStart(query, topK) ==
    /\ ~call.active
    /\ ret.status = "none"
    /\ steps' = <<>>
    /\ IF IsEmptyQuery(query)
       THEN /\ ret' = Returned("semantic", query, topK, <<>>, <<>>, <<>>, <<>>)
            /\ embedCalls' = 0
            /\ embedState' = "none"
            /\ UNCHANGED <<cachedEmbeddings, loads, call>>
       ELSE IF ~envKey
       THEN /\ ret' = Threw("semantic", query, topK, "config", <<>>)
            /\ embedCalls' = 0
            /\ embedState' = "none"
            /\ UNCHANGED <<cachedEmbeddings, loads, call>>
       ELSE IF ~LoadOk
       THEN /\ ret' = Threw("semantic", query, topK, "load", <<>>)
            /\ embedCalls' = 0
            /\ embedState' = "none"
            /\ UNCHANGED <<cachedEmbeddings, loads, call>>
       ELSE /\ cachedEmbeddings' = CacheAfterLoad
            /\ loads' = LoadsAfterLoad
            /\ embedCalls' = IssueEmbed(0, LoadedPosts)
            /\ embedState' = "pending"
            /\ call' = Pending("semantic", query, topK, <<>>)
            /\ ret' = NoRet
    /\ UNCHANGED <<envKey, embeddingsFile>>
    /\ UNCHANGED fuseVars
    /\ UNCHANGED extVars
    /\ UNCHANGED auxVars

\* searchPosts from the moment embed() resolves to its return
SearchPostsResume(queryEmbedding) ==
    /\ call.active
    /\ call.mode = "semantic"
    /\ LET embeddings == cachedEmbeddings.posts
       IN  ret' = IF SameDimension(queryEmbedding, embeddings)
                  THEN Returned("semantic", call.query, call.topK,
                                SemanticResults(queryEmbedding, embeddings, call.topK),
                                queryEmbedding, <<>>,
                                SemanticRanksOf(queryEmbedding, embeddings))
                  ELSE ThrewAfterEmbed("semantic", call.query, call.topK,
                                       "invalid_argument", queryEmbedding, <<>>, <<>>)
    /\ cachedEmbeddings' = IF SameDimension(queryEmbedding, cachedEmbeddings.posts)
                           THEN CacheAfterSearch(queryEmbedding)
                           ELSE cachedEmbeddings
    /\ call' = IdleCall
    /\ embedState' = "resolved"
    /\ UNCHANGED <<envKey, embeddingsFile, embedCalls, loads, steps>>
    /\ UNCHANGED fuseVars
    /\ UNCHANGED extVars
    /\ UNCHANGED auxVars

\* hybridSearch(query, topK) up to its await of Promise.all: getSemanticRanks
\* runs to its embed() call (or rejects for the missing key), then
\* getKeywordRanks runs to its end, and hybridSearch is suspended at the await
\* in either case
HybridSearchStart(query, topK) ==
    /\ ~call.active
    /\ ret.status = "none"
    /\ IF IsEmptyQuery(query)
       THEN /\ ret' = Returned("hybrid", query, topK, <<>>, <<>>, <<>>, <<>>)
            /\ embedCalls' = 0
            /\ embedState' = "none"
            /\ steps' = <<>>
            /\ UNCHANGED <<cachedEmbeddings, loads, call>>
       ELSE IF ~LoadOk
       THEN /\ ret' = Threw("hybrid", query, topK, "load", <<>>)
            /\ embedCalls' = 0
            /\ embedState' = "none"
            /\ steps' = <<>>
            /\ UNCHANGED <<cachedEmbeddings, loads, call>>
       ELSE LET keywordRanks == getKeywordRanks(query, LoadedPosts)
            IN  /\ cachedEmbeddings' = CacheAfterLoad
                /\ loads' = LoadsAfterLoad
                /\ ret' = NoRet
                /\ IF ~envKey
                   THEN /\ embedCalls' = 0
                        /\ embedState' = "none"
                        /\ steps' = HybridStartEvents(FALSE)
                        /\ call' = SemanticSettled(Pending("hybrid", query, topK,
                                                           keywordRanks),
                                                   "config", <<>>, <<>>)
                   ELSE /\ embedCalls' = IssueEmbed(0, LoadedPosts)
                        /\ embedState' = "pending"
                        /\ steps' = HybridStartEvents(TRUE)
                        /\ call' = Pending("hybrid", query, topK, keywordRanks)
    /\ UNCHANGED <<envKey, embeddingsFile>>
    /\ UNCHANGED fuseVars
    /\ UNCHANGED extVars
    /\ UNCHANGED auxVars

\* getSemanticRanks from the moment embed() resolves to its return: the
\* similarities are computed and ranked, or cosineSimilarity throws; the
\* hybridSearch that awaits it stays suspended
GetSemanticRanksResume(queryEmbedding) ==
    /\ call.active
    /\ call.mode = "hybrid"
    /\ call.at = "embed"
    /\ LET embeddings == cachedEmbeddings.posts
       IN  IF SameDimension(queryEmbedding, embeddings)
           THEN /\ call' = SemanticSettled(call, "none", queryEmbedding,
                                           SemanticRanksOf(queryEmbedding, embeddings))
                /\ steps' = steps \o SemanticSettleEvents(TRUE)
                /\ cachedEmbeddings' = CacheAfterSearch(queryEmbedding)
           ELSE /\ call' = SemanticSettled(call, "invalid_argument", queryEmbedding, <<>>)
                /\ steps' = steps \o SemanticSettleEvents(FALSE)
                /\ UNCHANGED cachedEmbeddings
    /\ embedState' = "resolved"
    /\ UNCHANGED <<envKey, embeddingsFile, embedCalls, loads, ret>>
    /\ UNCHANGED fuseVars
    /\ UNCHANGED extVars
    /\ UNCHANGED auxVars

\* hybridSearch from its await of Promise.all on: with the ranks of
\* getSemanticRanks it fuses and returns (or throws for a key that is not in
\* the store), with its rejection it rejects
HybridSearchResume ==
    /\ call.active
    /\ call.mode = "hybrid"
    /\ call.at = "all"
    /\ IF call.error = "none"
       THEN LET outcome == HybridOutcome(call.query, call.topK, call.queryEmbedding,
                                         call.keywordRanks, call.semanticRanks,
                                         cachedEmbeddings.posts)
            IN  /\ ret' = outcome
                /\ steps' = steps \o HybridSettleEvents(TRUE, outcome.status = "ok")
       ELSE /\ ret' = IF call.error = "invalid_argument"
                      THEN ThrewAfterEmbed("hybrid", call.query, call.topK, call.error,
                                           call.queryEmbedding, call.keywordRanks, <<>>)
                      ELSE HybridOnSemanticFailure(call.query, call.topK, call.error,
                                                   call.keywordRanks)
            /\ steps' = steps \o HybridSettleEvents(FALSE, FALSE)
    /\ call' = IdleCall
    /\ UNCHANGED <<envKey, embeddingsFile, cachedEmbeddings, embedCalls, embedState, loads>>
    /\ UNCHANGED fuseVars
    /\ UNCHANGED extVars
    /\ UNCHANGED auxVars

\* the embedding provider call fails: searchPosts rejects with that error;
\* getSemanticRanks rejects with it, and the hybridSearch that awaits it
\* stays suspended
EmbedReject ==
    /\ call.active
    /\ call.at = "embed"
    /\ IF call.mode = "hybrid"
       THEN /\ call' = SemanticSettled(call, "provider", <<>>, <<>>)
            /\ steps' = steps \o SemanticSettleEvents(FALSE)
            /\ UNCHANGED ret
       ELSE /\ ret' = Threw("semantic", call.query, call.topK, "provider", <<>>)
            /\ call' = IdleCall
            /\ UNCHANGED steps
    /\ embedState' = "rejected"
    /\ UNCHANGED <<envKey, embeddingsFile, cachedEmbeddings, embedCalls, loads>>
    /\ UNCHANGED fuseVars
    /\ UNCHANGED extVars
    /\ UNCHANGED auxVars

\* the caller that awaited the search (GET /api/search) takes its outcome
Deliver ==
    /\ ~call.active
    /\ ret.status # "none"
    /\ ret' = NoRet
    /\ embedCalls' = 0
    /\ embedState' = "none"
    /\ steps' = <<>>
    /\ UNCHANGED <<envKey, embeddingsFile, cachedEmbeddings, call, loads>>
    /\ UNCHANGED fuseVars
    /\ UNCHANGED extVars
    /\ UNCHANGED auxVars

\* a component that is not part of the specification at hand
Off == [pc |-> "off"]

\* the script, the other routes and the pages are not running
ExtIdle ==
    /\ gen = Off
    /\ tok = Off
    /\ api = Off
    /\ pg = Off
    /\ ui = Off

FuseIdle ==
    /\ fSemantic = <<>>
    /\ fKeyword = <<>>
    /\ fK = DefaultK
    /\ fOut = <<>>
    /\ fpc = "ready"

\* nothing called yet: no cache, no invocation, nothing remembered or suspended
Fresh ==
    /\ cachedEmbeddings = NoCache
    /\ call = IdleCall
    /\ ret = NoRet
    /\ embedCalls = 0
    /\ embedState = "none"
    /\ loads = NoLoads
    /\ steps = <<>>
    /\ memo = NoRet
    /\ suspended = <<>>

Init ==
    /\ envKey \in BOOLEAN
    /\ embeddingsFile \in {NoFile} \cup { [exists |-> TRUE, posts |-> c] : c \in Corpora }
    /\ Fresh
    /\ FuseIdle
    /\ ExtIdle

Next ==
    \/ \E query \in Queries, topK \in TopKs : KeywordSearch(query, topK)
    \/ \E query \in Queries, topK \in TopKs : SearchPostsStart(query, topK)
    \/ \E queryEmbedding \in QueryEmbeddings : SearchPostsResume(queryEmbedding)
    \/ \E query \in Queries, topK \in TopKs : HybridSearchStart(query, topK)
    \/ \E queryEmbedding \in QueryEmbeddings : GetSemanticRanksResume(queryEmbedding)
    \/ HybridSearchResume
    \/ EmbedReject
    \/ Deliver

Spec == Init /\ [][Next]_vars

---------------------------------------------------------------------------
(* SpecFuse: fuseRRF applied to two ranked lists *)

KeyA == [postIndex |-> 0, mediaIndex |-> 0]
KeyB == [postIndex |-> 0, mediaIndex |-> 1]
KeyC == [postIndex |-> 1, mediaIndex |-> 0]
KeyD == [postIndex |-> 11, mediaIndex |-> 10]

FuseKeys == {KeyA, KeyB, KeyC, KeyD}

\* the values of k tried: the default and a small one
KValues == {1, DefaultK}

\* a ranked list: distinct document keys, the entry at position i has rank i
RankedOf(keys) ==
    [i \in DOMAIN keys |->
        [postIndex |-> keys[i].postIndex, mediaIndex |-> keys[i].mediaIndex, rank |-> i]]

RankedLists ==
    { RankedOf(keys) :
        keys \in { s \in UNION { [1..n -> FuseKeys] : n \in 0..MaxLen } :
                     \A i, j \in DOMAIN s : i # j => s[i] # s[j] } }

\* an entry of a ranked list
RankedAt(key, rank) ==
    [postIndex |-> key.postIndex, mediaIndex |-> key.mediaIndex, rank |-> rank]

\* entries of longer lists, ranked far down: the sums 1/90 + 1/110 and
\* 1/99 + 1/99 (k = 60), 1/4 + 1/20 and 1/5 + 1/10 (k = 1) are equal as
\* fractions and differ as doubles
DeepLists ==
    { <<RankedAt(KeyA, 30), RankedAt(KeyB, 39)>>,
      <<RankedAt(KeyA, 50), RankedAt(KeyB, 39)>>,
      <<RankedAt(KeyB, 3), RankedAt(KeyA, 4)>>,
      <<RankedAt(KeyB, 19), RankedAt(KeyA, 9)>> }

SearchIdle ==
    /\ envKey = FALSE
    /\ embeddingsFile = NoFile
    /\ Fresh

InitFuse ==
    /\ fSemantic \in RankedLists \cup DeepLists
    /\ fKeyword \in RankedLists \cup DeepLists
    /\ fK \in KValues
    /\ fOut = <<>>
    /\ fpc = "ready"
    /\ SearchIdle
    /\ ExtIdle

FuseCall ==
    /\ fpc = "ready"
    /\ fOut' = fuseRRF(fSemantic, fKeyword, fK)
    /\ fpc' = "done"
    /\ UNCHANGED <<fSemantic, fKeyword, fK>>
    /\ UNCHANGED searchVars
    /\ UNCHANGED extVars

NextFuse == FuseCall

SpecFuse == InitFuse /\ [][NextFuse]_vars

---------------------------------------------------------------------------
(* Claims about fuseRRF, checked under SpecFuse *)

KeyOf(r) == [postIndex |-> r.postIndex, mediaIndex |-> r.mediaIndex]
KeysOf(list) == [i \in DOMAIN list |-> KeyOf(list[i])]
KeySet(list) == { KeyOf(list[i]) : i \in DOMAIN list }

\* rank of key in a ranked list, 0 when the list does not contain it
RankIn(list, key) ==
    IF \E i \in DOMAIN list : KeyOf(list[i]) = key
    THEN list[CHOOSE i \in DOMAIN list : KeyOf(list[i]) = key].rank
    ELSE 0

\* the sum of the claim, evaluated in doubles as the code evaluates it
ExpectedRRF(r1, r2, k) ==
    IF r1 > 0 /\ r2 > 0 THEN DoubleAdd(DoubleDiv(1, k + r1), DoubleDiv(1, k + r2))
    ELSE IF r1 > 0 THEN DoubleDiv(1, k + r1)
    ELSE DoubleDiv(1, k + r2)

\* C1: every document key of the two lists gets exactly the sum, over the
\* lists containing it, of 1/(k + rank): 1/(k+r1) + 1/(k+r2) for a key in
\* both lists, 1/(k+r) for a key in one list only.
C1_ExactRRFScore ==
    fpc = "done" =>
        \A key \in KeySet(fSemantic) \cup KeySet(fKeyword) :
            \E i \in DOMAIN fOut :
                /\ KeyOf(fOut[i]) = key
                /\ fOut[i].rrfScore
                     = ExpectedRRF(RankIn(fSemantic, key), RankIn(fKeyword, key), fK)

C1_Witness ==
    /\ fpc = "done"
    /\ \E key \in KeySet(fSemantic) \cap KeySet(fKeyword) :
           RankIn(fSemantic, key) # RankIn(fKeyword, key)
    /\ KeySet(fSemantic) \ KeySet(fKeyword) # {}
    /\ KeySet(fKeyword) \ KeySet(fSemantic) # {}

SameFused(x, y) ==
    /\ Len(x) = Len(y)
    /\ \A i \in DOMAIN x :
           /\ KeyOf(x[i]) = KeyOf(y[i])
           /\ x[i].rrfScore = y[i].rrfScore

\* C2: fusing (L1, L2) and fusing (L2, L1) give the same sequence of document
\* keys in the same order, tied documents included, with the same scores.
C2_Commutative ==
    fpc = "done" => SameFused(fOut, fuseRRF(fKeyword, fSemantic, fK))

\* C4: the output holds each key of either list exactly once and no other
\* key, sorted by non-increasing rrfScore; with k = 60, list1 = [A, B] and
\* list2 = [B, C] the output order is B, A, C.
C4_KeysOnceSorted ==
    fpc = "done" =>
        /\ KeySet(fOut) = KeySet(fSemantic) \cup KeySet(fKeyword)
        /\ \A i, j \in DOMAIN fOut : i # j => KeyOf(fOut[i]) # KeyOf(fOut[j])
        /\ \A i, j \in DOMAIN fOut : i < j => ~DoubleLess(fOut[i].rrfScore, fOut[j].rrfScore)
        /\ ( /\ fK = DefaultK
             /\ fSemantic = RankedOf(<<KeyA, KeyB>>)
             /\ fKeyword = RankedOf(<<KeyB, KeyC>>) )
           => KeysOf(fOut) = <<KeyB, KeyA, KeyC>>

C4_Witness ==
    /\ fpc = "done"
    /\ fK = DefaultK
    /\ fSemantic = RankedOf(<<KeyA, KeyB>>)
    /\ fKeyword = RankedOf(<<KeyB, KeyC>>)
    /\ Len(fOut) = 3

---------------------------------------------------------------------------
(* Claims about the search modes, checked under Spec *)

\* the empty string, or whitespace only
BlankQuery(query) == \A i \in DOMAIN query : query[i] \in WhitespaceChars

Finished(mode) == ret.status # "none" /\ ret.mode = mode

Corpus == cachedEmbeddings.posts

\* position of a document key in the loaded corpus
CorpusIndex(key) == CHOOSE i \in DOMAIN Corpus : KeyOf(Corpus[i]) = key

Min(a, b) == IF a < b THEN a ELSE b

\* C3: in the fused output of hybrid search, two documents with equal RRF
\* score appear in the order of the records of the loaded embedding store.
C3_TiesInCorpusOrder ==
    (Finished("hybrid") /\ ret.status = "ok") =>
        \A i, j \in DOMAIN ret.results :
            (i < j /\ ret.results[i].similarity = ret.results[j].similarity)
                => CorpusIndex(KeyOf(ret.results[i])) < CorpusIndex(KeyOf(ret.results[j]))

\* the semantic scorer of the finished hybrid invocation failed: the embedding
\* credential is missing, or the embedding provider call was rejected
SemanticFailed ==
    \/ ~envKey /\ cachedEmbeddings.loaded
    \/ embedState = "rejected"

\* C5: in hybrid mode with a non-empty query, when the semantic scorer fails
\* hybridSearch fails with that error and returns no result list, whatever
\* the keyword scorer produced.
C5_HybridFailsWithSemantic ==
    (Finished("hybrid") /\ ~BlankQuery(ret.query) /\ SemanticFailed) =>
        /\ ret.status = "error"
        /\ ret.error = (IF embedState = "rejected" THEN "provider" ELSE "config")
        /\ ret.results = <<>>

C5_Witness ==
    /\ Finished("hybrid")
    /\ ~BlankQuery(ret.query)
    /\ embedState = "rejected"
    /\ ret.status = "error"
    /\ Len(ret.keywordRanks) > 0

\* C6: in hybrid mode, when the keyword scorer returns an empty list and the
\* semantic scorer succeeds, hybridSearch returns the first topK documents of
\* the semantic ranking in semantic rank order, the document at semantic rank
\* r carrying similarity 1/(60 + r): the key order of semantic mode.
C6_HybridKeywordEmpty ==
    ( /\ Finished("hybrid")
      /\ ~BlankQuery(ret.query)
      /\ embedState = "resolved"
      /\ ret.keywordRanks = <<>> ) =>
        /\ ret.status = "ok"
        /\ Len(ret.results) = Min(ret.topK, Len(Corpus))
        /\ \A r \in DOMAIN ret.results :
               /\ KeyOf(ret.results[r]) = KeyOf(ret.semanticRanks[r])
               /\ ret.semanticRanks[r].rank = r
               /\ ret.results[r].similarity = DoubleDiv(1, 60 + r)
        /\ KeysOf(ret.results)
             = KeysOf(SemanticResults(ret.queryEmbedding, Corpus, ret.topK))

C6_Witness ==
    /\ Finished("hybrid")
    /\ ~BlankQuery(ret.query)
    /\ embedState = "resolved"
    /\ ret.keywordRanks = <<>>
    /\ Len(ret.results) >= 2
    /\ KeysOf(ret.results) # KeysOf(Corpus)

\* C7: for an empty or whitespace-only query each of the three modes returns
\* an empty result list without failing and without invoking the embedding
\* provider, also without the credential and without a loaded corpus.
C7_EmptyQuery ==
    /\ (ret.status # "none" /\ BlankQuery(ret.query)) =>
           /\ ret.status = "ok"
           /\ ret.results = <<>>
           /\ embedCalls = 0
           /\ embedState = "none"
    /\ call.active => ~BlankQuery(call.query)

C7_Witness ==
    /\ Finished("hybrid")
    /\ ret.query = QuerySpace
    /\ ret.status = "ok"
    /\ ~envKey
    /\ ~cachedEmbeddings.loaded
    /\ ~embeddingsFile.exists

\* the BM25 score of corpus record d for the query of the finished invocation
ScoreOfDoc(d) == BM25([i \in DOMAIN Corpus |-> Corpus[i].title], tokenize(ret.query))[d]

RanksComputed ==
    /\ ret.status # "none"
    /\ ret.mode \in {"keyword", "hybrid"}
    /\ ~BlankQuery(ret.query)
    /\ cachedEmbeddings.loaded

\* C8: the list returned by getKeywordRanks holds only corpus documents whose
\* BM25 score is strictly greater than 0, each at most once, sorted by
\* non-increasing score, the element at 0-based position i having rank i+1.
C8_KeywordRanksShape ==
    RanksComputed =>
        LET ranks == ret.keywordRanks IN
        /\ \A i \in DOMAIN ranks :
               /\ ranks[i].rank = i
               /\ RatLess(Rat(0, 1), ranks[i].score)
               /\ \E d \in DOMAIN Corpus :
                      /\ KeyOf(Corpus[d]) = KeyOf(ranks[i])
                      /\ RatLess(Rat(0, 1), ScoreOfDoc(d))
                      /\ ranks[i].score = ScoreOfDoc(d)
        /\ \A i, j \in DOMAIN ranks : i # j => KeyOf(ranks[i]) # KeyOf(ranks[j])
        /\ \A i, j \in DOMAIN ranks : i < j => ~RatLess(ranks[i].score, ranks[j].score)

C8_Witness ==
    /\ RanksComputed
    /\ Len(ret.keywordRanks) = 2
    /\ RatLess(ret.keywordRanks[2].score, ret.keywordRanks[1].score)
    /\ CorpusIndex(KeyOf(ret.keywordRanks[1])) = 2

Scenario9 ==
    /\ Finished("keyword")
    /\ ret.query = QueryGarden
    /\ Corpus = <<PostA, PostB>>

\* C9: with the corpus [A: "Lilly digs the garden", B: "Lilly eats cheese"]
\* and the query "garden", keyword mode returns exactly [A], A with a
\* strictly positive BM25 score.
C9_GardenScenario ==
    Scenario9 =>
        /\ ret.status = "ok"
        /\ KeysOf(ret.results) = << KeyOf(PostA) >>
        /\ ret.results[1].title = TitleGardenLong
        /\ RatLess(Rat(0, 1), ret.results[1].similarity)

C9_Witness == Scenario9 /\ ret.topK = 2 /\ Len(ret.results) = 1

\* whether the query and the title share a token of the tokenizer
SharesToken(query, title) ==
    \E i \in DOMAIN tokenize(query), j \in DOMAIN tokenize(title) :
        tokenize(query)[i] = tokenize(title)[j]

\* C10: the lexical scorer matches the tokens of tokenize(query) against the
\* tokens of tokenize(title): a document is ranked exactly when its title
\* shares a token with the query, regardless of letter case and never by a
\* substring of a longer word.
C10_TokenizedTitles ==
    (Finished("keyword") /\ ret.status = "ok" /\ ~BlankQuery(ret.query)) =>
        \A d \in DOMAIN Corpus :
            (KeyOf(Corpus[d]) \in KeySet(ret.keywordRanks))
                <=> SharesToken(ret.query, Corpus[d].title)

\* the case of C10 happens: a title word differs from the query word in case only
C10_Witness ==
    /\ Finished("keyword")
    /\ ret.query = QueryLilly
    /\ Len(Corpus) > 0
    /\ Corpus[1] = PostB

---------------------------------------------------------------------------
(* Claims about the semantic ranking and the shape of the results *)

\* a semantic or hybrid search of a non-empty query whose embed call succeeded
SemanticRanked ==
    /\ ret.status = "ok"
    /\ ret.mode \in {"semantic", "hybrid"}
    /\ ~BlankQuery(ret.query)

\* cosine similarity of the query embedding and the d-th record of the corpus
SimilarityOfDoc(d) == cosineSimilarity(ret.queryEmbedding, Corpus[d].embedding)

\* C11: after a successful embed call for a non-empty query, the semantic
\* ranked list holds every corpus record exactly once, ranks 1..N in list
\* order, sorted by non-increasing cosine similarity, records of equal
\* similarity in corpus order; searchPosts returns the head of that list.
C11_SemanticRanksWholeCorpus ==
    SemanticRanked =>
        LET ranks == ret.semanticRanks IN
        /\ Len(ranks) = Len(Corpus)
        /\ \A d \in DOMAIN Corpus :
               Cardinality({ i \in DOMAIN ranks : KeyOf(ranks[i]) = KeyOf(Corpus[d]) }) = 1
        /\ \A i \in DOMAIN ranks : ranks[i].rank = i
        /\ \A i, j \in DOMAIN ranks :
               i < j =>
                   LET di == CorpusIndex(KeyOf(ranks[i]))
                       dj == CorpusIndex(KeyOf(ranks[j]))
                   IN  /\ ~RatLess(SimilarityOfDoc(di), SimilarityOfDoc(dj))
                       /\ RatEq(SimilarityOfDoc(di), SimilarityOfDoc(dj)) => di < dj
        /\ ret.mode = "semantic" =>
               /\ Len(ret.results) = Min(ret.topK, Len(ranks))
               /\ \A i \in DOMAIN ret.results :
                      /\ KeyOf(ret.results[i]) = KeyOf(ranks[i])
                      /\ RatEq(ret.results[i].similarity,
                               SimilarityOfDoc(CorpusIndex(KeyOf(ranks[i]))))

\* a semantic search over two records of equal similarity, both returned
C11_Witness ==
    /\ SemanticRanked
    /\ ret.mode = "semantic"
    /\ Len(Corpus) = 2
    /\ Len(ret.results) = 2
    /\ Corpus[1].embedding # Corpus[2].embedding
    /\ RatEq(SimilarityOfDoc(1), SimilarityOfDoc(2))


\* whether the claim expects an embed request of the finished invocation
EmbedExpected ==
    /\ ret.mode \in {"semantic", "hybrid"}
    /\ ~BlankQuery(ret.query)
    /\ envKey

\* C12 as stated: an invocation calls the embedding provider exactly once when
\* the mode is semantic or hybrid, the query is non-empty and the credential is
\* configured, and zero times otherwise.
C12_EmbedOnceAsStated ==
    ret.status # "none" => embedCalls = (IF EmbedExpected THEN 1 ELSE 0)

\* C12 amended: an invocation calls the embedding provider exactly once when
\* the mode is semantic or hybrid, the query is non-empty, the credential is
\* configured and the embedding store loads (never once per document, never
\* again after a failure), and zero times in keyword mode, for an empty or
\* whitespace-only query, for a missing credential, or when the store cannot
\* be loaded.
C12_EmbedOnceWhenStoreLoads ==
    /\ embedCalls <= 1
    /\ call.active => embedCalls = (IF envKey THEN 1 ELSE 0)
    /\ ret.status # "none" =>
           embedCalls = (IF EmbedExpected /\ embeddingsFile.exists THEN 1 ELSE 0)

\* a hybrid search over two records whose single embed request failed
C12_Witness ==
    /\ ret.status = "error"
    /\ ret.mode = "hybrid"
    /\ ret.error = "provider"
    /\ Len(Corpus) = 2
    /\ embedCalls = 1


\* the keys of the full ranking of the mode of the finished invocation: the
\* keyword ranks, the semantic ranks, or their fusion
FullRanking ==
    IF ret.mode = "keyword" THEN KeysOf(ret.keywordRanks)
    ELSE IF ret.mode = "semantic" THEN KeysOf(ret.semanticRanks)
    ELSE KeysOf(fuseRRF(ret.semanticRanks, ret.keywordRanks, DefaultK))

\* C13: a successful search returns at most topK results, and they are the
\* first min(topK, n) entries, in order, of the full ranking of its mode.
C13_TopKPrefix ==
    ret.status = "ok" =>
        /\ Len(ret.results) <= ret.topK
        /\ Len(ret.results) = Min(ret.topK, Len(FullRanking))
        /\ \A i \in DOMAIN ret.results : KeyOf(ret.results[i]) = FullRanking[i]

\* a hybrid search whose full ranking is longer than topK
C13_Witness ==
    /\ ret.status = "ok"
    /\ ret.mode = "hybrid"
    /\ ret.topK = 1
    /\ Len(FullRanking) = 2
    /\ Len(ret.results) = 1

---------------------------------------------------------------------------
(* SpecRepeat: searches repeated against an unchanged corpus, the caller   *)
(* keeping an earlier outcome                                              *)

\* corpora with two records of one title, and with records that rank
\* differently under different query embeddings
SmallCorpora == { <<PostC, PostE>>, <<PostA, PostC>>, <<PostE, PostB>> }

SmallQueries == {QuerySpace, QueryGarden, QueryTheGarden}

SmallEmbeddings == { <<1, 0>>, <<0, 1>> }

InitSmall ==
    /\ envKey = TRUE
    /\ embeddingsFile \in { [exists |-> TRUE, posts |-> c] : c \in SmallCorpora }
    /\ Fresh
    /\ FuseIdle
    /\ ExtIdle

\* the caller keeps the outcome it awaited, to compare later outcomes with it
Remember ==
    /\ ~call.active
    /\ ret.status # "none"
    /\ memo.status = "none"
    /\ memo' = ret
    /\ ret' = NoRet
    /\ embedCalls' = 0
    /\ embedState' = "none"
    /\ steps' = <<>>
    /\ UNCHANGED <<envKey, embeddingsFile, cachedEmbeddings, call, loads, suspended>>
    /\ UNCHANGED fuseVars
    /\ UNCHANGED extVars

NextRepeat ==
    \/ \E query \in SmallQueries, topK \in TopKs : KeywordSearch(query, topK)
    \/ \E query \in SmallQueries, topK \in TopKs : SearchPostsStart(query, topK)
    \/ \E queryEmbedding \in SmallEmbeddings : SearchPostsResume(queryEmbedding)
    \/ \E query \in SmallQueries, topK \in TopKs : HybridSearchStart(query, topK)
    \/ \E queryEmbedding \in SmallEmbeddings : GetSemanticRanksResume(queryEmbedding)
    \/ HybridSearchResume
    \/ EmbedReject
    \/ Deliver
    \/ Remember

SpecRepeat == InitSmall /\ [][NextRepeat]_vars

\* the finished invocation had the arguments, and the provider vector, of the
\* remembered one
SameSearch ==
    /\ memo.status = "ok"
    /\ ret.status = "ok"
    /\ ret.mode = memo.mode
    /\ ret.query = memo.query
    /\ ret.topK = memo.topK
    /\ ret.queryEmbedding = memo.queryEmbedding

\* C14: the same query, mode and topK against the unchanged corpus, with the
\* provider returning the same vector, yields the same ordered result list as
\* the earlier invocation did, whatever searches ran in between.
C14_RepeatableResults ==
    SameSearch => ret.results = memo.results

\* a keyword search repeated with two results of equal score
C14_Witness ==
    /\ SameSearch
    /\ ret.mode = "keyword"
    /\ Len(ret.results) = 2
    /\ RatEq(ret.results[1].similarity, ret.results[2].similarity)
    /\ loads.cached

---------------------------------------------------------------------------
(* Claims about the cache, the failures and the fields of the results *)

\* C15: once loadEmbeddings has succeeded, the cached corpus stays the
\* sequence that was read, through every later search call, successful or
\* failing, and later loadEmbeddings calls return it without reading the file
\* again.
C15_CacheNeverChanges ==
    /\ loads.reads <= 1
    /\ loads.reads = 1 =>
           cachedEmbeddings = [loaded |-> TRUE, posts |-> embeddingsFile.posts]
    /\ loads.cached => loads.reads = 1

\* a later search, failing at its embed call, was served from the cache
C15_Witness ==
    /\ loads.reads = 1
    /\ loads.cached
    /\ ret.status = "error"
    /\ ret.error = "provider"
    /\ Len(cachedEmbeddings.posts) = 2

---------------------------------------------------------------------------
(* SpecConc: overlapping invocations.  A search function runs without      *)
(* interruption between its awaits, so every interleaving is a sequence of *)
(* such runs: an invocation waiting at embed() is set aside while other    *)
(* invocations start, resume or finish, and is taken up again later.       *)

\* the invocation suspended at its await is set aside
Suspend ==
    /\ call.active
    /\ Len(suspended) < MaxSuspended
    /\ suspended' = Append(suspended,
                           [call |-> call, embedCalls |-> embedCalls,
                            embedState |-> embedState, steps |-> steps])
    /\ call' = IdleCall
    /\ embedCalls' = 0
    /\ embedState' = "none"
    /\ steps' = <<>>
    /\ UNCHANGED <<envKey, embeddingsFile, cachedEmbeddings, ret, loads, memo>>
    /\ UNCHANGED fuseVars
    /\ UNCHANGED extVars

\* an invocation that was set aside is taken up again: its embed() call is
\* about to resolve or reject, or its hybridSearch is about to resume
Wake(i) ==
    /\ ~call.active
    /\ ret.status = "none"
    /\ i \in DOMAIN suspended
    /\ call' = suspended[i].call
    /\ embedCalls' = suspended[i].embedCalls
    /\ embedState' = suspended[i].embedState
    /\ steps' = suspended[i].steps
    /\ suspended' = [j \in 1..(Len(suspended) - 1) |->
                        IF j < i THEN suspended[j] ELSE suspended[j + 1]]
    /\ UNCHANGED <<envKey, embeddingsFile, cachedEmbeddings, ret, loads, memo>>
    /\ UNCHANGED fuseVars
    /\ UNCHANGED extVars

\* the overlapping invocations ask for the whole of their two-record corpus
ConcTopKs == {MaxTopK}

NextConc ==
    \/ \E query \in SmallQueries, topK \in ConcTopKs : KeywordSearch(query, topK)
    \/ \E query \in SmallQueries, topK \in ConcTopKs : SearchPostsStart(query, topK)
    \/ \E queryEmbedding \in SmallEmbeddings : SearchPostsResume(queryEmbedding)
    \/ \E query \in SmallQueries, topK \in ConcTopKs : HybridSearchStart(query, topK)
    \/ \E queryEmbedding \in SmallEmbeddings : GetSemanticRanksResume(queryEmbedding)
    \/ HybridSearchResume
    \/ EmbedReject
    \/ Deliver
    \/ Suspend
    \/ \E i \in 1..MaxSuspended : Wake(i)

SpecConc == InitSmall /\ [][NextConc]_vars

\* what the finished invocation returns when it runs alone on the corpus of
\* embeddings.json, its embed call resolving to the same vector
AloneResults ==
    LET posts == embeddingsFile.posts IN
    IF BlankQuery(ret.query) THEN <<>>
    ELSE IF ret.mode = "keyword"
    THEN KeywordResults(getKeywordRanks(ret.query, posts), posts, ret.topK)
    ELSE IF ret.mode = "semantic"
    THEN SemanticResults(ret.queryEmbedding, posts, ret.topK)
    ELSE HybridResults(fuseRRF(SemanticRanksOf(ret.queryEmbedding, posts),
                               getKeywordRanks(ret.query, posts), DefaultK),
                       posts, ret.topK)

\* C16: an invocation that overlapped with others, each waiting at its embed
\* call in any interleaving, returns what it would have returned alone; it
\* fails only when its own embed call failed.
C16_OverlapLikeAlone ==
    /\ ret.status = "ok" => ret.results = AloneResults
    /\ ret.status = "error" => ret.error = "provider" /\ embedState = "rejected"

\* a hybrid search finished while two other invocations were still waiting
\* at their embed calls, one of them a semantic search
C16_Witness ==
    /\ ret.status = "ok"
    /\ ret.mode = "hybrid"
    /\ Len(ret.results) = 2
    /\ Len(suspended) = 2
    /\ \E i \in DOMAIN suspended : suspended[i].call.mode = "semantic"

---------------------------------------------------------------------------
(* Claims about the order of the steps of hybridSearch *)

\* position of the first occurrence of an event in steps, 0 when absent
StepAt(event) ==
    IF \E i \in DOMAIN steps : steps[i] = event
    THEN CHOOSE i \in DOMAIN steps :
             steps[i] = event /\ \A j \in 1..(i - 1) : steps[j] # event
    ELSE 0

\* a hybrid search of a non-empty query that got past loadEmbeddings
HybridUnderWay ==
    \/ call.active /\ call.mode = "hybrid"
    \/ /\ Finished("hybrid")
       /\ ~BlankQuery(ret.query)
       /\ ret.error # "load"

\* C17: in hybrid mode the lexical and the semantic computation are both
\* started before either result is awaited, and fuseRRF is invoked only after
\* both completed successfully: never while a ranking is pending, never when
\* the semantic ranking failed.
C17_BothStartedThenFused ==
    /\ HybridUnderWay =>
           /\ 0 < StepAt("semantic:start") /\ StepAt("semantic:start") < StepAt("await")
           /\ 0 < StepAt("keyword:start") /\ StepAt("keyword:start") < StepAt("await")
    /\ StepAt("fuse") > 0 =>
           /\ 0 < StepAt("semantic:done") /\ StepAt("semantic:done") < StepAt("fuse")
           /\ 0 < StepAt("keyword:done") /\ StepAt("keyword:done") < StepAt("fuse")
           /\ StepAt("semantic:failed") = 0
           /\ embedState = "resolved"
    /\ (call.active \/ StepAt("semantic:failed") > 0) => StepAt("fuse") = 0
    /\ (Finished("hybrid") /\ ret.status = "ok" /\ ~BlankQuery(ret.query)) =>
           StepAt("fuse") > 0

\* a hybrid search returned fused results of both rankings
C17_Witness ==
    /\ Finished("hybrid")
    /\ ret.status = "ok"
    /\ Len(ret.keywordRanks) = 2
    /\ Len(ret.semanticRanks) = 2
    /\ StepAt("fuse") > StepAt("await")

---------------------------------------------------------------------------
(* SpecAnyFile: the search modes over an embeddings.json that was not      *)
(* written by generate-embeddings.  loadEmbeddings takes data.posts as it  *)
(* is parsed.                                                              *)

AnyCorpora ==
    { <<PostA, PostShort>>, <<PostShort, PostC>>, <<PostNeg>>, <<PostNeg, PostB>>,
      <<PostA, PostNeg>>, <<PostA, PostC>>, <<PostDash>> }

InitAnyFile ==
    /\ envKey \in BOOLEAN
    /\ embeddingsFile \in { [exists |-> TRUE, posts |-> c] : c \in AnyCorpora }
    /\ Fresh
    /\ FuseIdle
    /\ ExtIdle

SpecAnyFile == InitAnyFile /\ [][Next]_vars

\* whether every key of the first topK entries of a ranking is a key of the store
TopResolves(list, topK) ==
    \A i \in 1..Min(topK, Len(list)) :
        \E d \in DOMAIN Corpus :
            KeyOf(Corpus[d]) = KeyOf(list[i])

\* the ranking whose keys the finished keyword or hybrid search resolved
RankingToResolve ==
    IF ret.mode = "keyword" THEN ret.keywordRanks
    ELSE fuseRRF(ret.semanticRanks, ret.keywordRanks, DefaultK)

\* a keyword or hybrid search that reached the resolution of its top keys
ReachedResolve ==
    /\ ret.status # "none"
    /\ ret.mode \in {"keyword", "hybrid"}
    /\ ~BlankQuery(ret.query)
    /\ ret.mode = "hybrid" => embedState = "resolved" /\ ret.error # "invalid_argument"

\* C18: in keyword and hybrid mode, when a key of the top topK of the ranking
\* is not a key of the store, the search fails with an error and returns no
\* list; a search that returns a list resolved every one of its top keys.
C18_UnresolvedKeyFails ==
    ReachedResolve =>
        /\ ~TopResolves(RankingToResolve, ret.topK) =>
               /\ ret.status = "error"
               /\ ret.error = "not_found"
               /\ ret.results = <<>>
        /\ ret.status = "ok" =>
               /\ TopResolves(RankingToResolve, ret.topK)
               /\ Len(ret.results) = Min(ret.topK, Len(RankingToResolve))

\* a hybrid search with two top keys, one in the store and one not, failed
C18_Witness ==
    /\ ReachedResolve
    /\ ret.mode = "hybrid"
    /\ ret.topK = 2
    /\ Len(RankingToResolve) = 2
    /\ \E i \in 1..2 : \E d \in DOMAIN Corpus : KeyOf(Corpus[d]) = KeyOf(RankingToResolve[i])
    /\ ~TopResolves(RankingToResolve, ret.topK)
    /\ ret.status = "error"

---------------------------------------------------------------------------
(* Claims about the fields of the results and the loader *)

\* the ranking score of the d-th record of the corpus in the mode of the
\* finished invocation: BM25, cosine similarity, or the RRF score of its ranks
ModeScoreOfDoc(d) ==
    IF ret.mode = "keyword" THEN ScoreOfDoc(d)
    ELSE IF ret.mode = "semantic" THEN SimilarityOfDoc(d)
    ELSE ExpectedRRF(RankIn(ret.semanticRanks, KeyOf(Corpus[d])),
                     RankIn(ret.keywordRanks, KeyOf(Corpus[d])), DefaultK)

\* C19: the similarity of a returned result is the ranking score of its
\* document in the mode used (BM25 score, cosine similarity, RRF score), and
\* its other fields are those of the store record with its (postIndex,
\* mediaIndex).
C19_SimilarityIsModeScore ==
    ret.status = "ok" =>
        \A i \in DOMAIN ret.results :
            LET r == ret.results[i] IN
            /\ \E d \in DOMAIN Corpus : KeyOf(Corpus[d]) = KeyOf(r)
            /\ \A d \in DOMAIN Corpus :
                   KeyOf(Corpus[d]) = KeyOf(r) =>
                       /\ r.title = Corpus[d].title
                       /\ r.uri = Corpus[d].uri
                       /\ r.isVideo = Corpus[d].isVideo
                       /\ r.creationTimestamp = Corpus[d].creationTimestamp
                       /\ IF ret.mode = "hybrid"
                          THEN r.similarity = ModeScoreOfDoc(d)
                          ELSE RatEq(r.similarity, ModeScoreOfDoc(d))

\* a hybrid search returned two documents, one ranked by both rankings and
\* one by the semantic ranking only
C19_Witness ==
    /\ ret.status = "ok"
    /\ ret.mode = "hybrid"
    /\ Len(ret.results) = 2
    /\ Len(ret.keywordRanks) = 1
    /\ ret.results[1].similarity # ret.results[2].similarity

\* C20: the loader accepts only a corpus whose embedding vectors all have the
\* same length; a corpus with two vectors of different lengths is rejected at
\* load time, so no search computes a similarity against such a record.
C20_LoaderEnforcesDimension ==
    cachedEmbeddings.loaded =>
        \A i, j \in DOMAIN Corpus :
            Len(Corpus[i].embedding) = Len(Corpus[j].embedding)

---------------------------------------------------------------------------
(* SpecGen: the generate-embeddings script, from posts_1.json to           *)
(* embeddings.json                                                         *)

\* const batchSize = 100
BatchSize == 100

\* the batch sizes tried: the script's, and small ones that put batch
\* boundaries inside the posts files of the model
BatchSizes == {1, 2, BatchSize}

\* media entries of posts_1.json: fileExists is existsSync of the media file,
\* creation_timestamp 0 stands for a missing one
MediaPhoto == [title |-> TitleGarden, uri |-> "media/posts/a.jpg",
               creation_timestamp |-> 1600000000, fileExists |-> TRUE]
MediaVideo == [title |-> TitleCheese, uri |-> "media/posts/b.mp4",
               creation_timestamp |-> 1600000100, fileExists |-> TRUE]
MediaUntitled == [title |-> <<"\t">>, uri |-> "media/posts/u.jpg",
                  creation_timestamp |-> 1600000200, fileExists |-> TRUE]
MediaMissing == [title |-> TitlePad, uri |-> "media/posts/m.mp4.jpg",
                 creation_timestamp |-> 1600000300, fileExists |-> FALSE]
MediaUndated == [title |-> TitlePad, uri |-> "media/posts/t.jpg",
                 creation_timestamp |-> 0, fileExists |-> TRUE]

\* the posts of the model
PostShapes ==
    { [media |-> <<>>],
      [media |-> <<MediaPhoto>>],
      [media |-> <<MediaPhoto, MediaVideo>>],
      [media |-> <<MediaUntitled, MediaPhoto>>],
      [media |-> <<MediaVideo, MediaMissing, MediaPhoto>>],
      [media |-> <<MediaUndated>>] }

PostsFiles == UNION { [1..n -> PostShapes] : n \in 0..MaxPosts }

\* whether the script keeps a media entry: a non-blank title, an existing
\* file, a creation timestamp
KeepsMedia(media) ==
    /\ ~TrimIsEmpty(media.title)
    /\ media.fileExists
    /\ media.creation_timestamp # 0

\* String.prototype.endsWith
EndsWith(s, suffix) ==
    /\ Len(s) >= Len(suffix)
    /\ SubSeq(s, Len(s) - Len(suffix) + 1, Len(s)) = suffix

\* media.uri.endsWith('.mp4')
IsVideoUri(uri) == EndsWith(uri, ".mp4")

\* the item pushed for media entry m of post p (both counted from 1 here)
ItemOf(posts, p, m) ==
    [postIndex |-> p - 1, mediaIndex |-> m - 1,
     title |-> posts[p].media[m].title, uri |-> posts[p].media[m].uri,
     isVideo |-> IsVideoUri(posts[p].media[m].uri),
     creationTimestamp |-> posts[p].media[m].creation_timestamp]

RECURSIVE ItemsFrom(_, _, _)
\* the nested loops over posts and media, from entry m of post p on
ItemsFrom(posts, p, m) ==
    IF p > Len(posts) THEN <<>>
    ELSE IF m > Len(posts[p].media) THEN ItemsFrom(posts, p + 1, 1)
    ELSE IF KeepsMedia(posts[p].media[m])
         THEN <<ItemOf(posts, p, m)>> \o ItemsFrom(posts, p, m + 1)
         ELSE ItemsFrom(posts, p, m + 1)

\* itemsToEmbed
ItemsToEmbed(posts) == ItemsFrom(posts, 1, 1)

\* the vector embedMany returns for a title
EmbeddingOfTitle(title) == IF title = TitleGarden THEN <<1, 0>> ELSE <<0, 1>>

\* the values embedMany may resolve with for the titles of a batch: one
\* vector per title, in order, or, from a provider that answers short, the
\* vectors of all titles but the last
EmbedManyResponses(titles) ==
    { [j \in 1..n |-> EmbeddingOfTitle(titles[j])] :
        n \in { Len(titles) - 1, Len(titles) } }

\* a plausible slip: the record takes its indices from its place in the batch
EmbeddingRecords_batchIndex(batch, batchEmbeddings) ==
    [j \in DOMAIN batch |->
        LET item == [postIndex |-> 0, mediaIndex |-> j - 1,
                     title |-> batch[j].title, uri |-> batch[j].uri,
                     isVideo |-> batch[j].isVideo,
                     creationTimestamp |-> batch[j].creationTimestamp]
        IN  IF j \in DOMAIN batchEmbeddings
            THEN [ f \in DOMAIN item \cup {"embedding"} |->
                     IF f = "embedding" THEN batchEmbeddings[j] ELSE item[f] ]
            ELSE item]

\* the records pushed for a batch: the item's fields and batchEmbeddings[j].
\* Where batchEmbeddings[j] is undefined the record's embedding is undefined
\* and JSON.stringify writes the record without the key: the record has no
\* field embedding.
EmbeddingRecords(batch, batchEmbeddings) ==
    [j \in DOMAIN batch |->
        LET item == [postIndex |-> batch[j].postIndex, mediaIndex |-> batch[j].mediaIndex,
                     title |-> batch[j].title, uri |-> batch[j].uri,
                     isVideo |-> batch[j].isVideo,
                     creationTimestamp |-> batch[j].creationTimestamp]
        IN  IF j \in DOMAIN batchEmbeddings
            THEN [ f \in DOMAIN item \cup {"embedding"} |->
                     IF f = "embedding" THEN batchEmbeddings[j] ELSE item[f] ]
            ELSE item]

\* what the script leaves alone: everything but itself and embeddings.json
genFrame == <<fuseVars, envKey, cachedEmbeddings, call, ret, embedCalls, embedState,
              loads, steps, auxVars, tok, api, pg, ui>>

\* an embeddings.json left by an earlier run of the script
OldFile == [exists |-> TRUE, posts |-> <<PostA>>]

\* the script is started: pc is where it stands ("batch": embedMany of the
\* batch that starts at item i is awaited; "wait": the 100 ms timer between
\* two batches is awaited)
InitGen ==
    /\ gen \in { [pc |-> "start", posts |-> f, envKey |-> e, batchSize |-> b,
                  items |-> <<>>, i |-> 0, embeddings |-> <<>>] :
                 f \in PostsFiles, e \in BOOLEAN, b \in BatchSizes }
    /\ embeddingsFile \in {NoFile, OldFile}
    /\ tok = Off
    /\ api = Off
    /\ pg = Off
    /\ ui = Off
    /\ envKey = FALSE
    /\ Fresh
    /\ FuseIdle

\* generateEmbeddings up to its first embedMany: the posts are scanned, the
\* script exits when nothing is to embed or the key is not set
GenScan ==
    /\ gen.pc = "start"
    /\ LET items == ItemsToEmbed(gen.posts)
       IN  gen' = [gen EXCEPT !.items = items,
                              !.pc = IF Len(items) = 0 \/ ~gen.envKey
                                     THEN "exit" ELSE "batch"]
    /\ UNCHANGED embeddingsFile
    /\ UNCHANGED genFrame

\* embedMany of the batch resolves with batchEmbeddings: the records of the
\* batch are pushed; the script then awaits the 100 ms timer when a batch is
\* left, and otherwise leaves the loop and writes embeddings.json
GenBatch(batchEmbeddings) ==
    /\ gen.pc = "batch"
    /\ LET last == IF gen.i + gen.batchSize < Len(gen.items)
                   THEN gen.i + gen.batchSize ELSE Len(gen.items)
           batch == SubSeq(gen.items, gen.i + 1, last)
           embeddings == gen.embeddings \o EmbeddingRecords(batch, batchEmbeddings)
       IN  IF gen.i + gen.batchSize < Len(gen.items)
           THEN /\ gen' = [gen EXCEPT !.embeddings = embeddings, !.pc = "wait"]
                /\ UNCHANGED embeddingsFile
           ELSE /\ gen' = [gen EXCEPT !.embeddings = embeddings,
                                      !.i = gen.i + gen.batchSize,
                                      !.pc = "done"]
                /\ embeddingsFile' = [exists |-> TRUE, posts |-> embeddings]
    /\ UNCHANGED genFrame

\* the timer between two batches fires: the loop goes on to the next batch
\* and calls embedMany for it
GenDelayElapsed ==
    /\ gen.pc = "wait"
    /\ gen' = [gen EXCEPT !.i = gen.i + gen.batchSize, !.pc = "batch"]
    /\ UNCHANGED embeddingsFile
    /\ UNCHANGED genFrame

\* embedMany rejects: the error is rethrown and nothing is written
GenBatchFail ==
    /\ gen.pc = "batch"
    /\ gen' = [gen EXCEPT !.pc = "failed"]
    /\ UNCHANGED embeddingsFile
    /\ UNCHANGED genFrame

\* the titles of the batch whose embedMany is awaited
BatchTitles ==
    LET last == IF gen.i + gen.batchSize < Len(gen.items)
                THEN gen.i + gen.batchSize ELSE Len(gen.items)
    IN  [j \in 1..(last - gen.i) |-> gen.items[gen.i + j].title]

NextGen ==
    \/ GenScan
    \/ \E batchEmbeddings \in EmbedManyResponses(BatchTitles) : GenBatch(batchEmbeddings)
    \/ GenDelayElapsed
    \/ GenBatchFail

SpecGen == InitGen /\ [][NextGen]_vars

\* C21: no two records of the embeddings.json that the script writes share
\* their (postIndex, mediaIndex), whatever the posts file and wherever the
\* batch boundaries fall.
C21_GeneratedKeysUnique ==
    /\ gen.pc = "done" =>
           /\ embeddingsFile.exists
           /\ Len(embeddingsFile.posts) = Len(ItemsToEmbed(gen.posts))
           /\ \A i, j \in DOMAIN embeddingsFile.posts :
                  i # j => KeyOf(embeddingsFile.posts[i]) # KeyOf(embeddingsFile.posts[j])
    /\ gen.pc # "done" => embeddingsFile \in {NoFile, OldFile}

\* a file of records of two posts, written after more than one batch, some
\* media having been skipped, in the place of an older file
C21_Witness ==
    /\ gen.pc = "done"
    /\ gen.batchSize = 2
    /\ Len(embeddingsFile.posts) >= 3
    /\ \E i, j \in DOMAIN embeddingsFile.posts :
           embeddingsFile.posts[i].postIndex # embeddingsFile.posts[j].postIndex
    /\ \E i \in DOMAIN embeddingsFile.posts : embeddingsFile.posts[i].isVideo
    /\ \E p \in DOMAIN gen.posts : \E m \in DOMAIN gen.posts[p].media :
           ~KeepsMedia(gen.posts[p].media[m])

---------------------------------------------------------------------------
(* Claims about fuseRRF and tokenize as functions *)

\* the fused score of a document key in an output of fuseRRF
FusedScore(out, key) == out[CHOOSE i \in DOMAIN out : KeyOf(out[i]) = key].rrfScore

\* the list with the rank of its i-th entry set to r, all else as it was
WithRank(list, i, r) == [list EXCEPT ![i].rank = r]

\* C22: for fixed k, giving a document a better (smaller) rank in one of the
\* two lists, every other entry of both lists staying as it was, never
\* decreases the fused score of that document.
C22_Monotonic ==
    fpc = "done" =>
        /\ \A i \in DOMAIN fSemantic : \A r \in 1..(fSemantic[i].rank - 1) :
               ~DoubleLess(FusedScore(fuseRRF(WithRank(fSemantic, i, r), fKeyword, fK),
                                   KeyOf(fSemantic[i])),
                        FusedScore(fOut, KeyOf(fSemantic[i])))
        /\ \A i \in DOMAIN fKeyword : \A r \in 1..(fKeyword[i].rank - 1) :
               ~DoubleLess(FusedScore(fuseRRF(fSemantic, WithRank(fKeyword, i, r), fK),
                                   KeyOf(fKeyword[i])),
                        FusedScore(fOut, KeyOf(fKeyword[i])))

\* a document of both lists, ranked third in one of them, whose fused score
\* grows when that rank becomes 1
C22_Witness ==
    /\ fpc = "done"
    /\ Len(fSemantic) = 3
    /\ KeyOf(fSemantic[3]) \in KeySet(fKeyword)
    /\ DoubleLess(FusedScore(fOut, KeyOf(fSemantic[3])),
               FusedScore(fuseRRF(WithRank(fSemantic, 3, 1), fKeyword, fK),
                          KeyOf(fSemantic[3])))


\* SpecTok: tokenize applied to a text

\* characters of the texts: a lower-case and an upper-case letter, a digit,
\* and four characters outside [a-z0-9] after lower-casing, one of them a
\* letter that toLowerCase changes
TokChars == {"a", "Z", "7", " ", "-", "_", "É"}

Texts == UNION { [1..n -> TokChars] : n \in 0..MaxText }

tokFrame == <<fuseVars, searchVars, gen, api, pg, ui>>

InitTok ==
    /\ tok \in { [pc |-> "ready", text |-> t, out |-> <<>>] : t \in Texts }
    /\ gen = Off
    /\ api = Off
    /\ pg = Off
    /\ ui = Off
    /\ envKey = FALSE
    /\ embeddingsFile = NoFile
    /\ Fresh
    /\ FuseIdle

TokenizeCall ==
    /\ tok.pc = "ready"
    /\ tok' = [tok EXCEPT !.pc = "done", !.out = tokenize(tok.text)]
    /\ UNCHANGED tokFrame

NextTok == TokenizeCall

SpecTok == InitTok /\ [][NextTok]_vars

\* the lower-cased text tokenize was called with
Lowered == [i \in DOMAIN tok.text |->
               IF tok.text[i] = "Z" THEN "z"
               ELSE IF tok.text[i] = "É" THEN "é" ELSE tok.text[i]]

InClass(c) == c \in {"a", "z", "7"}

\* the positions where a maximal run of [a-z0-9] starts, and where the run
\* starting at s ends
RunStarts ==
    { i \in DOMAIN Lowered :
        InClass(Lowered[i]) /\ (i = 1 \/ ~InClass(Lowered[i - 1])) }
RunEnd(s) ==
    CHOOSE e \in s..Len(Lowered) :
        /\ \A j \in s..e : InClass(Lowered[j])
        /\ e = Len(Lowered) \/ ~InClass(Lowered[e + 1])

\* the start of the n-th run from the left
NthStart(n) ==
    CHOOSE s \in RunStarts : Cardinality({ t \in RunStarts : t < s }) = n - 1

\* C23: tokenize returns, from left to right, exactly the maximal runs of
\* characters of [a-z0-9] of the lower-cased input: every token is non-empty
\* and of that class, none is dropped or merged, and an input without such a
\* character yields the empty sequence.
C23_TokensAreMaximalRuns ==
    tok.pc = "done" =>
        /\ Len(tok.out) = Cardinality(RunStarts)
        /\ \A n \in DOMAIN tok.out :
               /\ tok.out[n] = SubSeq(Lowered, NthStart(n), RunEnd(NthStart(n)))
               /\ Len(tok.out[n]) > 0
               /\ \A j \in DOMAIN tok.out[n] : InClass(tok.out[n][j])

\* a text of two runs around an underscore, one of them an upper-case letter
C23_Witness ==
    /\ tok.pc = "done"
    /\ tok.text = <<"a", "_", "Z">>
    /\ tok.out = << <<"a">>, <<"z">> >>

---------------------------------------------------------------------------
(* Claims about queries without tokens *)

\* a query that is not blank and holds no letter and no digit
NoTokenQuery(query) ==
    /\ ~BlankQuery(query)
    /\ \A i \in DOMAIN query :
           query[i] \notin Range(LowerChars) \cup Range(UpperChars) \cup Range(DigitChars)

\* C24 as stated: for a non-empty query that tokenizes to zero tokens the
\* lexical scorer returns an empty ranked list, without an error and without
\* computing BM25 scores, and keyword mode returns an empty result list.
C24_NoTokensAsStated ==
    (Finished("keyword") /\ NoTokenQuery(ret.query)) =>
        /\ ret.status = "ok"
        /\ ret.keywordRanks = <<>>
        /\ ret.results = <<>>
        /\ StepAt("bm25") = 0

\* C24 amended: for a non-empty query that tokenizes to zero tokens the
\* lexical scorer returns an empty ranked list, without an error and without
\* computing BM25 scores, and keyword mode returns an empty result list when
\* the embedding store can be loaded; when it cannot, keyword mode fails with
\* the load error before the lexical scorer is called.
C24_NoTokensWhenStoreLoads ==
    /\ (Finished("keyword") /\ NoTokenQuery(ret.query)) =>
           IF embeddingsFile.exists
           THEN /\ ret.status = "ok"
                /\ ret.keywordRanks = <<>>
                /\ ret.results = <<>>
                /\ StepAt("tokenize") > 0
                /\ StepAt("bm25") = 0
           ELSE /\ ret.status = "error"
                /\ ret.error = "load"
                /\ steps = <<>>
    /\ (call.active /\ call.mode = "hybrid" /\ NoTokenQuery(call.query)) =>
           call.keywordRanks = <<>>
    /\ (Finished("hybrid") /\ NoTokenQuery(ret.query)) => ret.keywordRanks = <<>>

\* keyword search of '-' over a corpus of two records returned no result
C24_Witness ==
    /\ Finished("keyword")
    /\ ret.query = QueryDash
    /\ ret.status = "ok"
    /\ Len(Corpus) = 2
    /\ ret.results = <<>>
    /\ StepAt("tokenize") > 0

---------------------------------------------------------------------------
(* SpecApi: GET /api/search, from the request to the response *)

\* a query parameter: searchParams.get returns null for an absent one
Absent == [present |-> FALSE, value |-> <<>>]
Param(value) == [present |-> TRUE, value |-> value]

\* !param: null and the empty string are falsy
Falsy(param) == ~param.present \/ Len(param.value) = 0

RECURSIVE DigitPrefix(_, _)
\* the longest prefix of decimal digits of s from position i on
DigitPrefix(s, i) ==
    IF i > Len(s) \/ s[i] \notin Range(DigitChars) THEN <<>>
    ELSE <<s[i]>> \o DigitPrefix(s, i + 1)

RECURSIVE FirstNonSpace(_, _)
FirstNonSpace(s, i) ==
    IF i <= Len(s) /\ IsWhitespace(s[i]) THEN FirstNonSpace(s, i + 1) ELSE i

\* parseInt(s, 10): leading whitespace, an optional sign, then the longest
\* run of digits; NaN when there is no digit
ParseInt(s) ==
    LET start == FirstNonSpace(s, 1)
        signed == start <= Len(s) /\ s[start] \in {"-", "+"}
        digits == DigitPrefix(s, IF signed THEN start + 1 ELSE start)
    IN  IF Len(digits) = 0 THEN [nan |-> TRUE, value |-> 0]
        ELSE [nan |-> FALSE,
              value |-> IF signed /\ s[start] = "-"
                        THEN 0 - ParseNumber(digits) ELSE ParseNumber(digits)]

\* let limit = 10
DefaultLimit == 10
\* Math.min(parsedLimit, 50)
LimitCap == 50

\* a plausible slip: the lower bound of the limit is not checked
LimitOutcome_noLowerBound(limitParam) ==
    IF Falsy(limitParam) THEN [ok |-> TRUE, limit |-> DefaultLimit]
    ELSE LET parsedLimit == ParseInt(limitParam.value)
         IN  IF parsedLimit.nan THEN [ok |-> FALSE, limit |-> 0]
             ELSE [ok |-> TRUE,
                   limit |-> IF parsedLimit.value < LimitCap
                             THEN parsedLimit.value ELSE LimitCap]

\* parse and validate limit
LimitOutcome(limitParam) ==
    IF Falsy(limitParam) THEN [ok |-> TRUE, limit |-> DefaultLimit]
    ELSE LET parsedLimit == ParseInt(limitParam.value)
         IN  IF parsedLimit.nan \/ parsedLimit.value < 1 THEN [ok |-> FALSE, limit |-> 0]
             ELSE [ok |-> TRUE,
                   limit |-> IF parsedLimit.value < LimitCap
                             THEN parsedLimit.value ELSE LimitCap]

ModeSemantic == <<"s","e","m","a","n","t","i","c">>
ModeKeyword == <<"k","e","y","w","o","r","d">>
ModeHybrid == <<"h","y","b","r","i","d">>
validModes == {ModeSemantic, ModeKeyword, ModeHybrid}

\* (modeParam?.toLowerCase() as SearchMode) || 'hybrid', then validModes.includes
ModeOutcome(modeParam) ==
    LET mode == IF Falsy(modeParam) THEN ModeHybrid ELSE toLowerCase(modeParam.value)
    IN  [ok |-> mode \in validModes, mode |-> mode]

\* the search function of the switch
SearchFunctionOf(mode) ==
    IF mode = ModeSemantic THEN "searchPosts"
    ELSE IF mode = ModeKeyword THEN "keywordSearch"
    ELSE "hybridSearch"

\* the values of q, limit and mode of the requests of the model
QParams == {Absent, Param(<<>>), Param(QuerySpace), Param(QueryGarden), Param(QueryDash)}
LimitParams ==
    {Absent, Param(<<>>), Param(<<"a","b","c">>), Param(<<"0">>), Param(<<"-","3">>),
     Param(<<"5">>), Param(<<"5","a","b","c">>), Param(<<"1",".","9">>),
     Param(<<"9","9">>), Param(<<"\t","7">>)}
ModeParams ==
    {Absent, Param(<<>>), Param(ModeSemantic), Param(ModeKeyword), Param(ModeHybrid),
     Param(<<"K","E","Y","W","O","R","D">>), Param(<<"H","y","b","r","i","d">>),
     Param(<<"f","u","z","z","y">>)}

apiFrame == <<fuseVars, searchVars, gen, tok, pg, ui>>

InitApi ==
    /\ api \in { [pc |-> "request", route |-> "search", q |-> q, limitParam |-> l,
                  modeParam |-> m, status |-> 0, invoked |-> <<>>, embedCalls |-> 0] :
                 q \in QParams, l \in LimitParams, m \in ModeParams }
    /\ gen = Off
    /\ tok = Off
    /\ pg = Off
    /\ ui = Off
    /\ envKey = FALSE
    /\ embeddingsFile = NoFile
    /\ Fresh
    /\ FuseIdle

\* GET up to its await: the three validations, then the call of the search
\* function of the mode
ApiSearchValidate ==
    /\ api.pc = "request"
    /\ api.route = "search"
    /\ IF Falsy(api.q) \/ TrimIsEmpty(api.q.value)
       THEN api' = [api EXCEPT !.pc = "done", !.status = 400]
       ELSE IF ~LimitOutcome(api.limitParam).ok
       THEN api' = [api EXCEPT !.pc = "done", !.status = 400]
       ELSE IF ~ModeOutcome(api.modeParam).ok
       THEN api' = [api EXCEPT !.pc = "done", !.status = 400]
       ELSE api' = [api EXCEPT
                       !.pc = "searching",
                       !.invoked = <<[fn |-> SearchFunctionOf(ModeOutcome(api.modeParam).mode),
                                      query |-> api.q.value,
                                      topK |-> LimitOutcome(api.limitParam).limit]>>]
    /\ UNCHANGED apiFrame

\* the search function returns: 200; embedCallsMade is the number of embed
\* requests it made, none in keyword mode
ApiSearchReturns(embedCallsMade) ==
    /\ api.pc = "searching"
    /\ api.route = "search"
    /\ api.invoked[1].fn = "keywordSearch" => embedCallsMade = 0
    /\ api' = [api EXCEPT !.pc = "done", !.status = 200, !.embedCalls = embedCallsMade]
    /\ UNCHANGED apiFrame

\* the search function throws: the catch block answers 500
ApiSearchThrows(embedCallsMade) ==
    /\ api.pc = "searching"
    /\ api.route = "search"
    /\ api.invoked[1].fn = "keywordSearch" => embedCallsMade = 0
    /\ api' = [api EXCEPT !.pc = "done", !.status = 500, !.embedCalls = embedCallsMade]
    /\ UNCHANGED apiFrame

NextApi ==
    \/ ApiSearchValidate
    \/ \E n \in 0..1 : ApiSearchReturns(n)
    \/ \E n \in 0..1 : ApiSearchThrows(n)

SpecApi == InitApi /\ [][NextApi]_vars


\* q is missing, empty or whitespace-only
QRejected == ~api.q.present \/ BlankQuery(api.q.value)

\* the limit, read literally: given, and not parsing to an integer >= 1
LimitRejectedAsStated ==
    /\ api.limitParam.present
    /\ ParseInt(api.limitParam.value).nan \/ ParseInt(api.limitParam.value).value < 1

\* the mode, read literally: given, and not one of the three names
ModeRejectedAsStated ==
    /\ api.modeParam.present
    /\ api.modeParam.value \notin {ModeSemantic, ModeKeyword, ModeHybrid}

\* the search function of a mode name
FunctionNamed(mode) ==
    CASE mode = ModeSemantic -> "searchPosts"
      [] mode = ModeKeyword -> "keywordSearch"
      [] mode = ModeHybrid -> "hybridSearch"
      [] OTHER -> "none"

\* C25 as stated: a missing, empty or whitespace-only q, a limit that does not
\* parse to an integer >= 1, or a mode outside {semantic, keyword, hybrid}
\* yields 400 with no search function invoked and no embed call; valid
\* parameters invoke exactly the search function of the mode, hybrid when the
\* mode is absent.
C25_ValidationAsStated ==
    api.pc = "done" =>
        IF QRejected \/ LimitRejectedAsStated \/ ModeRejectedAsStated
        THEN /\ api.status = 400
             /\ api.invoked = <<>>
             /\ api.embedCalls = 0
        ELSE /\ Len(api.invoked) = 1
             /\ api.invoked[1].fn =
                    (IF api.modeParam.present THEN FunctionNamed(api.modeParam.value)
                     ELSE "hybridSearch")

\* a limit that is given, not empty, and does not parse to an integer >= 1
LimitRejected == LimitRejectedAsStated /\ Len(api.limitParam.value) > 0

\* a mode that is given, not empty, and in lower case not one of the three names
ModeRejected ==
    /\ api.modeParam.present
    /\ Len(api.modeParam.value) > 0
    /\ FunctionNamed(toLowerCase(api.modeParam.value)) = "none"

\* C25 amended: a missing, empty or whitespace-only q, a non-empty limit that
\* parseInt does not read as an integer >= 1, or a non-empty mode that is, in
\* lower case, outside {semantic, keyword, hybrid} yields 400 with no search
\* function invoked and no embed call; otherwise exactly one search function
\* is invoked, that of the lower-cased mode (hybrid when the mode is absent or
\* empty), with the query and with the limit capped at 50 (10 when the limit
\* is absent or empty).
C25_ValidationBeforeSearch ==
    /\ api.pc = "done" =>
           IF QRejected \/ LimitRejected \/ ModeRejected
           THEN /\ api.status = 400
                /\ api.invoked = <<>>
                /\ api.embedCalls = 0
           ELSE /\ api.status \in {200, 500}
                /\ Len(api.invoked) = 1
                /\ api.invoked[1].fn =
                       (IF api.modeParam.present /\ Len(api.modeParam.value) > 0
                        THEN FunctionNamed(toLowerCase(api.modeParam.value))
                        ELSE "hybridSearch")
                /\ api.invoked[1].query = api.q.value
                /\ api.invoked[1].topK =
                       (IF api.limitParam.present /\ Len(api.limitParam.value) > 0
                        THEN Min(ParseInt(api.limitParam.value).value, 50)
                        ELSE 10)
    /\ api.pc = "searching" =>
           ~(QRejected \/ LimitRejected \/ ModeRejected) /\ Len(api.invoked) = 1

\* a request with a good q and mode and limit=0 was answered 400
C25_Witness ==
    /\ api.pc = "done"
    /\ api.route = "search"
    /\ api.q = Param(QueryGarden)
    /\ api.modeParam = Param(ModeKeyword)
    /\ api.limitParam = Param(<<"0">>)
    /\ api.status = 400
    /\ api.invoked = <<>>


---------------------------------------------------------------------------
(* GET /api/posts: the paginated, filtered and sorted list of posts *)

\* media entries of posts_1.json as the route reads them: video_metadata is
\* whether media_metadata.video_metadata is there, creation_timestamp 0
\* stands for a missing one, an empty title or uri is falsy
PgPhotoOld == [uri |-> "media/posts/a.jpg", title |-> TitleGarden,
               creation_timestamp |-> 100, video_metadata |-> FALSE]
PgVideo == [uri |-> "media/posts/b.mp4", title |-> TitleCheese,
            creation_timestamp |-> 300, video_metadata |-> TRUE]
PgPhotoTie == [uri |-> "media/posts/c.jpg", title |-> TitlePad,
               creation_timestamp |-> 300, video_metadata |-> FALSE]
PgUntitled == [uri |-> "media/posts/u.jpg", title |-> <<>>,
               creation_timestamp |-> 200, video_metadata |-> FALSE]
PgUndatedVideo == [uri |-> "media/posts/t.mp4", title |-> TitleCheese,
                   creation_timestamp |-> 0, video_metadata |-> TRUE]

PgPostShapes ==
    { [media |-> <<>>],
      [media |-> <<PgPhotoOld, PgVideo>>],
      [media |-> <<PgUntitled, PgPhotoTie>>],
      [media |-> <<PgUndatedVideo>>] }

\* the contents of public/posts_1.json, or a file that cannot be read
PgUnreadable == [readable |-> FALSE, posts |-> <<>>]
PgFiles ==
    {PgUnreadable} \cup
    { [readable |-> TRUE, posts |-> p] :
        p \in UNION { [1..n -> PgPostShapes] : n \in 0..MaxPosts } }

RECURSIVE FlattenFrom(_, _, _)
\* the nested forEach of flattenPosts, from entry m of post p on
FlattenFrom(posts, p, m) ==
    IF p > Len(posts) THEN <<>>
    ELSE IF m > Len(posts[p].media) THEN FlattenFrom(posts, p + 1, 1)
    ELSE IF posts[p].media[m].uri # "" /\ Len(posts[p].media[m].title) > 0
         THEN << [postIndex |-> p - 1, mediaIndex |-> m - 1,
                  title |-> posts[p].media[m].title, uri |-> posts[p].media[m].uri,
                  isVideo |-> posts[p].media[m].video_metadata,
                  creationTimestamp |-> posts[p].media[m].creation_timestamp] >>
              \o FlattenFrom(posts, p, m + 1)
         ELSE FlattenFrom(posts, p, m + 1)

flattenPosts(posts) == FlattenFrom(posts, 1, 1)

\* let page = 1, replaced by a parsed page >= 1
PageOutcome(pageParam) ==
    IF Falsy(pageParam) THEN 1
    ELSE LET parsedPage == ParseInt(pageParam.value)
         IN  IF ~parsedPage.nan /\ parsedPage.value >= 1 THEN parsedPage.value ELSE 1

\* let limit = 20
DefaultPageLimit == 20
\* Math.min(parsedLimit, 100)
PageLimitCap == 100

\* let limit = 20, replaced by a parsed limit >= 1 capped at 100
PageLimitOutcome(limitParam) ==
    IF Falsy(limitParam) THEN DefaultPageLimit
    ELSE LET parsedLimit == ParseInt(limitParam.value)
         IN  IF ~parsedLimit.nan /\ parsedLimit.value >= 1
             THEN (IF parsedLimit.value < PageLimitCap THEN parsedLimit.value
                   ELSE PageLimitCap)
             ELSE DefaultPageLimit

TypeAll == <<"a","l","l">>
TypePhotos == <<"p","h","o","t","o","s">>
TypeVideos == <<"v","i","d","e","o","s">>
validTypes == {TypeAll, TypePhotos, TypeVideos}

\* (typeParam?.toLowerCase() as MediaType) || 'all', then validTypes.includes
TypeOutcome(typeParam) ==
    LET type == IF Falsy(typeParam) THEN TypeAll ELSE toLowerCase(typeParam.value)
    IN  [ok |-> type \in validTypes, type |-> type]

SortNewest == <<"n","e","w","e","s","t">>
SortOldest == <<"o","l","d","e","s","t">>
validSorts == {SortNewest, SortOldest}

\* (sortParam?.toLowerCase() as SortOrder) || 'newest', then validSorts.includes
SortOutcome(sortParam) ==
    LET sort == IF Falsy(sortParam) THEN SortNewest ELSE toLowerCase(sortParam.value)
    IN  [ok |-> sort \in validSorts, sort |-> sort]

\* the filter by media type
FilterByType(results, type) ==
    IF type = TypePhotos THEN SelectSeq(results, LAMBDA r : ~r.isVideo)
    ELSE IF type = TypeVideos THEN SelectSeq(results, LAMBDA r : r.isVideo)
    ELSE results

\* results.sort by creation timestamp, newest or oldest first; the sort is
\* stable, so equal timestamps keep the order of the file
SortByTimestamp(results, sort) ==
    LET first(j, i) ==
            IF sort = SortNewest
            THEN results[j].creationTimestamp > results[i].creationTimestamp
            ELSE results[j].creationTimestamp < results[i].creationTimestamp
        pos(i) ==
            1 + Cardinality({ j \in DOMAIN results : first(j, i) })
              + Cardinality({ j \in 1..(i - 1) :
                    results[j].creationTimestamp = results[i].creationTimestamp })
    IN  [p \in DOMAIN results |-> results[CHOOSE i \in DOMAIN results : pos(i) = p]]

\* Math.ceil(total / limit)
CeilDiv(total, limit) == (total + limit - 1) \div limit

\* a plausible slip: the page starts at page * limit
PageSlice_offByOnePage(results, page, limit) ==
    LET offset == page * limit
        last == IF offset + limit < Len(results) THEN offset + limit ELSE Len(results)
    IN  SubSeq(results, offset + 1, last)

\* results.slice(offset, offset + limit) with offset = (page - 1) * limit
PageSlice(results, page, limit) ==
    LET offset == (page - 1) * limit
        last == IF offset + limit < Len(results) THEN offset + limit ELSE Len(results)
    IN  SubSeq(results, offset + 1, last)

\* the response of GET for a page request without the random parameter
PostsResponse(file, pageParam, limitParam, typeParam, sortParam) ==
    LET page == PageOutcome(pageParam)
        limit == PageLimitOutcome(limitParam)
        type == TypeOutcome(typeParam)
        sort == SortOutcome(sortParam)
        results == SortByTimestamp(FilterByType(flattenPosts(file.posts), type.type),
                                   sort.sort)
        total == Len(results)
        totalPages == CeilDiv(total, limit)
    IN  IF ~type.ok \/ ~sort.ok THEN [status |-> 400]
        ELSE IF ~file.readable THEN [status |-> 500]
        ELSE [status |-> 200,
              results |-> PageSlice(results, page, limit),
              page |-> page, limit |-> limit, total |-> total,
              totalPages |-> totalPages,
              hasNextPage |-> page < totalPages,
              hasPreviousPage |-> page > 1]

\* the values of limit, type and sort of the clients of the model
PgLimitParams == {Param(<<"1">>), Param(<<"\n","2">>), Param(<<"1","0","0">>), Param(<<"0">>)}
PgTypeParams == {Absent, Param(TypePhotos), Param(<<"V","i","d","e","o","s">>),
                 Param(<<"g","i","f","s">>)}
PgSortParams == {Absent, Param(SortOldest), Param(<<"u","p">>)}

pgFrame == <<fuseVars, searchVars, gen, tok, api, ui>>

\* a client that keeps type, sort and limit and has asked for no page yet;
\* cachedPosts is null
InitPosts ==
    /\ pg \in { [pc |-> "browse", file |-> f, cachedPosts |-> FALSE,
                 limitParam |-> l, typeParam |-> t, sortParam |-> s,
                 responses |-> <<>>, lucky |-> [status |-> 0]] :
                f \in PgFiles, l \in PgLimitParams, t \in PgTypeParams,
                s \in PgSortParams }
    /\ gen = Off
    /\ tok = Off
    /\ api = Off
    /\ ui = Off
    /\ envKey = FALSE
    /\ embeddingsFile = NoFile
    /\ Fresh
    /\ FuseIdle

\* cachedPosts after loadPosts: set once the file was read
CachedAfterGet(file, typeParam, sortParam, cachedPosts) ==
    IF TypeOutcome(typeParam).ok /\ SortOutcome(sortParam).ok /\ file.readable
    THEN TRUE ELSE cachedPosts

\* the pages the client has asked for so far end the walk one page after the
\* last item
WalkEnded ==
    /\ pg.responses # <<>>
    /\ \/ pg.responses[Len(pg.responses)].status # 200
       \/ Len(pg.responses) > pg.responses[Len(pg.responses)].totalPages

\* GET /api/posts for the next page of the client's walk
PostsGet ==
    /\ pg.pc = "browse"
    /\ ~WalkEnded
    /\ pg' = [pg EXCEPT
                !.responses = Append(@, PostsResponse(pg.file,
                                  Param(NumberToString(Len(pg.responses) + 1)),
                                  pg.limitParam, pg.typeParam, pg.sortParam)),
                !.cachedPosts = CachedAfterGet(pg.file, pg.typeParam, pg.sortParam, @)]
    /\ UNCHANGED pgFrame

\* GET /api/posts?random=true: one of the filtered posts, 404 when none
PostsGetRandom ==
    /\ pg.pc = "browse"
    /\ LET type == TypeOutcome(pg.typeParam)
           sort == SortOutcome(pg.sortParam)
           results == FilterByType(flattenPosts(pg.file.posts), type.type)
       IN  /\ IF ~type.ok \/ ~sort.ok THEN pg' = [pg EXCEPT !.lucky = [status |-> 400]]
              ELSE IF ~pg.file.readable THEN pg' = [pg EXCEPT !.lucky = [status |-> 500]]
              ELSE IF Len(results) = 0
              THEN pg' = [pg EXCEPT !.lucky = [status |-> 404], !.cachedPosts = TRUE]
              ELSE \E randomIndex \in DOMAIN results :
                       pg' = [pg EXCEPT !.lucky = [status |-> 200,
                                                   result |-> results[randomIndex]],
                                        !.cachedPosts = TRUE]
    /\ UNCHANGED pgFrame

NextPosts ==
    \/ PostsGet
    \/ PostsGetRandom

SpecPosts == InitPosts /\ [][NextPosts]_vars


\* the limit the client asks for, when it is an integer in 1..100
PgAskedLimit ==
    IF pg.limitParam.present /\ ~ParseInt(pg.limitParam.value).nan
    THEN ParseInt(pg.limitParam.value).value ELSE 0

\* every page asked for so far was answered with a page of posts
PgAllAnswered ==
    /\ pg.pc = "browse"
    /\ PgAskedLimit \in 1..100
    /\ \A i \in DOMAIN pg.responses : pg.responses[i].status = 200

RECURSIVE PgConcat(_, _)
\* the results of pages 1..n one after the other
PgConcat(responses, n) ==
    IF n = 0 THEN <<>> ELSE PgConcat(responses, n - 1) \o responses[n].results

\* the posts of the file that have a uri and a title and pass the type filter
PgWanted ==
    { r \in Range(flattenPosts(pg.file.posts)) :
        \/ Falsy(pg.typeParam)
        \/ toLowerCase(pg.typeParam.value) = TypeAll
        \/ toLowerCase(pg.typeParam.value) = TypePhotos /\ ~r.isVideo
        \/ toLowerCase(pg.typeParam.value) = TypeVideos /\ r.isVideo }

\* a list is in the order of the sort parameter, newest first when absent
PgInOrder(list) ==
    \A i, j \in DOMAIN list :
        i < j =>
            IF ~Falsy(pg.sortParam) /\ toLowerCase(pg.sortParam.value) = SortOldest
            THEN list[i].creationTimestamp <= list[j].creationTimestamp
            ELSE list[i].creationTimestamp >= list[j].creationTimestamp

\* C26: for GET /api/posts with fixed type and sort and a limit L in 1..100,
\* pages 1..totalPages are consecutive disjoint slices whose concatenation is
\* exactly the filtered list sorted by creation timestamp, no item omitted or
\* repeated; every page holds at most L items, a page beyond totalPages is
\* empty, and hasNextPage is true exactly when page < totalPages.
C26_PagesPartitionTheList ==
    PgAllAnswered =>
        /\ \A i \in DOMAIN pg.responses :
              LET r == pg.responses[i]
              IN  /\ r.page = i
                  /\ Len(r.results) <= PgAskedLimit
                  /\ i < r.totalPages => Len(r.results) = PgAskedLimit
                  /\ i = r.totalPages => Len(r.results) >= 1
                  /\ i > r.totalPages => r.results = <<>>
                  /\ r.hasNextPage <=> (i < r.totalPages)
                  /\ r.totalPages = pg.responses[1].totalPages
        /\ (pg.responses # <<>> /\ Len(pg.responses) >= pg.responses[1].totalPages) =>
              LET whole == PgConcat(pg.responses, pg.responses[1].totalPages)
              IN  /\ Range(whole) = PgWanted
                  /\ Len(whole) = Cardinality(PgWanted)
                  /\ PgInOrder(whole)
                  /\ whole = SortByTimestamp(
                                 FilterByType(flattenPosts(pg.file.posts),
                                              TypeOutcome(pg.typeParam).type),
                                 SortOutcome(pg.sortParam).sort)

\* three posts were paged by two: a full page, a page of one, an empty page
C26_Witness ==
    /\ PgAllAnswered
    /\ PgAskedLimit = 2
    /\ Len(pg.responses) = 3
    /\ pg.responses[1].totalPages = 2
    /\ Len(pg.responses[1].results) = 2
    /\ pg.responses[1].hasNextPage
    /\ Len(pg.responses[2].results) = 1
    /\ ~pg.responses[2].hasNextPage
    /\ pg.responses[3].results = <<>>


---------------------------------------------------------------------------
(* The posts index page: browsing with filters and infinite scroll, search *)

\* search requests one page issues
MaxSearches == 2

\* the media type buttons the user clicks: photos pages like all
UiTypes == {TypeAll, TypeVideos}

\* what the user can put in the search box
UiQueries == {QueryEmpty, <<"g">>, QueryGar}

\* pagination.totalPages of /api/posts for a media type, with limit 20
UiTotalPages(type) == IF type = TypeVideos THEN 1 ELSE 2

\* searchResults is []; otherwise the results of the response to request id
NoResults == [id |-> 0, query |-> <<>>]

\* no IntersectionObserver is observing the scroll target
NoObserver == [attached |-> FALSE, page |-> 0, type |-> TypeAll, sort |-> SortNewest]

\* a plausible slip: loadPosts without the isLoadingRef check
loadPosts_noGuard(u, page, reset, type, sort) ==
    [u EXCEPT
        !.isLoadingRef = TRUE,
        !.isLoading = IF reset THEN TRUE ELSE @,
        !.posts = IF reset THEN <<>> ELSE @,
        !.currentPage = IF reset THEN 1 ELSE @,
        !.isLoadingMore = IF reset THEN @ ELSE TRUE,
        !.error = FALSE,
        !.postsRequests = Append(@, [page |-> page, reset |-> reset,
                                     type |-> type, sort |-> sort])]

\* loadPosts(page, reset) up to its await; type and sort are the mediaType and
\* sortOrder of the render the callback was made in
loadPosts(u, page, reset, type, sort) ==
    IF u.isLoadingRef THEN u
    ELSE [u EXCEPT
            !.isLoadingRef = TRUE,
            !.isLoading = IF reset THEN TRUE ELSE @,
            !.posts = IF reset THEN <<>> ELSE @,
            !.currentPage = IF reset THEN 1 ELSE @,
            !.isLoadingMore = IF reset THEN @ ELSE TRUE,
            !.error = FALSE,
            !.postsRequests = Append(@, [page |-> page, reset |-> reset,
                                         type |-> type, sort |-> sort])]

\* a call of loadPosts, with a note of whether a request was pending at the
\* call and whether the call changed anything
LoadPostsCall(u, page, reset, type, sort) ==
    [loadPosts(u, page, reset, type, sort) EXCEPT
        !.lastCall = [pending |-> u.isLoadingRef,
                      changed |-> loadPosts(u, page, reset, type, sort) # u]]

\* performSearch(query) up to its await
performSearch(u, query) ==
    IF Len(query) < 2
    THEN [u EXCEPT !.searchResults = NoResults, !.hasSearched = FALSE,
                   !.isSearching = FALSE, !.cleared = TRUE]
    ELSE [u EXCEPT !.isSearching = TRUE, !.error = FALSE, !.hasSearched = TRUE,
                   !.issued = @ + 1,
                   !.searchRequests = @ \cup {[id |-> u.issued + 1, query |-> query]},
                   !.cleared = FALSE]

\* the page shows posts, not search results
Browsing(u) == ~u.hasSearched /\ Len(u.searchQuery) < 2

\* the infinite scroll trigger is rendered
TargetShown(u) == Len(u.posts) > 0 /\ Browsing(u) /\ u.hasMore

\* the dependencies of the debounce effect, the load effect and the observer
\* effect; loadPosts changes with mediaType and sortOrder
LoadDeps(u) == <<u.mediaType, u.sortOrder, u.hasSearched, u.searchQuery>>
ObserverDeps(u) ==
    <<u.hasMore, u.isLoadingMore, u.currentPage, u.hasSearched, u.searchQuery,
      u.mediaType, u.sortOrder>>

\* the debounce effect and the load effect of the render that leads from old
\* to new
Effects(old, new) ==
    LET timed == IF new.searchQuery # old.searchQuery
                 THEN [new EXCEPT !.timer = [armed |-> TRUE, query |-> new.searchQuery]]
                 ELSE new
    IN  IF LoadDeps(new) # LoadDeps(old) /\ Browsing(timed) /\ ~timed.isLoadingRef
        THEN LoadPostsCall([timed EXCEPT !.hasLoadedInitialRef = TRUE], 1, TRUE,
                           timed.mediaType, timed.sortOrder)
        ELSE timed

\* the DOM after a render: an observer of a scroll target that is no longer
\* rendered observes nothing
DomCommit(u) == IF TargetShown(u) THEN u ELSE [u EXCEPT !.observer = NoObserver]

\* the observer effect, run when its dependencies changed: unobserve, then
\* observe the target if there is one and more posts can be loaded
RunObserverEffect(u) ==
    IF ~u.effectPending THEN u
    ELSE [u EXCEPT
            !.effectPending = FALSE,
            !.observer =
                IF Browsing(u) /\ u.hasMore /\ ~u.isLoadingMore /\ TargetShown(u)
                THEN [attached |-> TRUE, page |-> u.currentPage,
                      type |-> u.mediaType, sort |-> u.sortOrder]
                ELSE NoObserver]

Commit(u) == RunObserverEffect(DomCommit(u))

\* the render that leads from old to new: the observer effect has to run
\* again when one of its dependencies changed
Rendered(old, new) ==
    [new EXCEPT !.observer = old.observer,
                !.effectPending = ObserverDeps(new) # ObserverDeps(old)]

\* the render after a state update made outside an input event (a response, a
\* timer, an observer callback): the observer effect of the new render is run
\* later, that of the render before is run first
AfterUpdate(u, new) ==
    LET loaded == Effects(u, Rendered(Commit(u), new))
    IN  DomCommit(Rendered(Commit(u), loaded))

\* the render after an input event: every effect is run before the event
\* ends, the load effect's own state updates are rendered after that
AfterEvent(u, new) ==
    LET first == Commit(Rendered(Commit(u), new))
    IN  Commit(Rendered(first, Effects(u, first)))

uiFrame == <<fuseVars, searchVars, gen, tok, api, pg>>

\* the page after mounting: the load effect has called loadPosts(1, true), the
\* debounce effect has set its timer, nothing is rendered to observe
InitIndex ==
    /\ ui = [pc |-> "mounted",
             posts |-> <<>>, isLoading |-> TRUE, isLoadingMore |-> FALSE,
             error |-> FALSE, hasMore |-> TRUE, currentPage |-> 1,
             mediaType |-> TypeAll, sortOrder |-> SortNewest,
             searchQuery |-> QueryEmpty, searchResults |-> NoResults,
             isSearching |-> FALSE, hasSearched |-> FALSE,
             isLoadingRef |-> TRUE, hasLoadedInitialRef |-> TRUE,
             timer |-> [armed |-> TRUE, query |-> QueryEmpty],
             postsRequests |-> << [page |-> 1, reset |-> TRUE,
                                   type |-> TypeAll, sort |-> SortNewest] >>,
             searchRequests |-> {}, issued |-> 0, answered |-> 0,
             cleared |-> FALSE,
             observer |-> NoObserver,
             effectPending |-> FALSE,
             lastCall |-> [pending |-> FALSE, changed |-> TRUE]]
    /\ gen = Off
    /\ tok = Off
    /\ api = Off
    /\ pg = Off
    /\ envKey = FALSE
    /\ embeddingsFile = NoFile
    /\ Fresh
    /\ FuseIdle

\* the debounce timer fires: performSearch(searchQuery)
UiTimerFires ==
    /\ ui.pc = "mounted"
    /\ ui.timer.armed
    /\ Len(ui.timer.query) >= 2 => ui.issued < MaxSearches
    /\ ui' = AfterUpdate(ui, performSearch([ui EXCEPT !.timer = [armed |-> FALSE, query |-> QueryEmpty]],
                                           ui.timer.query))
    /\ UNCHANGED uiFrame

\* typing in the search box, or a click on a suggested tag
UiSetSearchQuery(query) ==
    /\ ui.pc = "mounted"
    /\ query # ui.searchQuery
    /\ ui' = AfterEvent(ui, [ui EXCEPT !.searchQuery = query])
    /\ UNCHANGED uiFrame

\* setSearchQuery(''), setHasSearched(false), setSearchResults([])
ClearSearch(u) ==
    [u EXCEPT !.searchQuery = QueryEmpty, !.hasSearched = FALSE,
              !.searchResults = NoResults, !.cleared = TRUE]

\* the posts on display
DisplayPosts(u) ==
    IF u.hasSearched /\ Len(u.searchQuery) >= 2
    THEN (IF u.searchResults.id = 0 THEN <<>> ELSE <<u.searchResults>>)
    ELSE u.posts

\* a click on one of the two clear buttons
UiClearSearch ==
    /\ ui.pc = "mounted"
    /\ Len(ui.searchQuery) >= 2
    /\ ~ui.isLoading
    /\ \/ ~ui.isSearching
       \/ ui.hasSearched /\ DisplayPosts(ui) = <<>> /\ ~ui.error
    /\ ui' = AfterEvent(ui, ClearSearch(ui))
    /\ UNCHANGED uiFrame

\* a click on a media type button, the selected one included: onClick sets
\* the type and page 1 and clears a search whatever the type was
UiSetMediaType(type) ==
    /\ ui.pc = "mounted"
    /\ ~ui.hasSearched \/ Len(ui.searchQuery) < 2
    /\ ui' = AfterEvent(ui,
                [(IF ui.hasSearched THEN ClearSearch(ui) ELSE ui) EXCEPT
                    !.mediaType = type, !.currentPage = 1])
    /\ UNCHANGED uiFrame

\* another option of the sort dropdown is chosen
UiSetSortOrder(sort) ==
    /\ ui.pc = "mounted"
    /\ ~ui.hasSearched \/ Len(ui.searchQuery) < 2
    /\ sort # ui.sortOrder
    /\ ui' = AfterEvent(ui,
                [(IF ui.hasSearched THEN ClearSearch(ui) ELSE ui) EXCEPT
                    !.sortOrder = sort, !.currentPage = 1])
    /\ UNCHANGED uiFrame

\* the observer reports the scroll target in view: loadPosts(currentPage + 1,
\* false) of the render the observer was made in
UiScroll ==
    /\ ui.pc = "mounted"
    /\ ui.observer.attached
    /\ TargetShown(ui)
    /\ LET new == LoadPostsCall(ui, ui.observer.page + 1, FALSE,
                                ui.observer.type, ui.observer.sort)
       IN  ui' = IF new.lastCall.changed THEN AfterUpdate(ui, new) ELSE new
    /\ UNCHANGED uiFrame

\* the response to the posts request arrives, or the request fails.
\* data.results is the page asked for, and is empty for a page after the
\* last one: appending it leaves the posts as they are.
UiPostsResponse(ok) ==
    /\ ui.pc = "mounted"
    /\ ui.postsRequests # <<>>
    /\ LET req == Head(ui.postsRequests)
           results == IF req.page <= UiTotalPages(req.type)
                      THEN << [type |-> req.type, sort |-> req.sort, page |-> req.page] >>
                      ELSE <<>>
           settled == [ui EXCEPT !.postsRequests = Tail(@), !.isLoadingRef = FALSE,
                                 !.isLoading = FALSE, !.isLoadingMore = FALSE]
       IN  ui' = AfterUpdate(ui,
                    IF ok
                    THEN [settled EXCEPT
                            !.posts = IF req.reset THEN results ELSE @ \o results,
                            !.hasMore = req.page < UiTotalPages(req.type),
                            !.currentPage = req.page]
                    ELSE [settled EXCEPT !.error = TRUE])
    /\ UNCHANGED uiFrame

\* the response to one of the search requests arrives, or the request fails
UiSearchResponse(req, ok) ==
    /\ ui.pc = "mounted"
    /\ req \in ui.searchRequests
    /\ LET settled == [ui EXCEPT !.searchRequests = @ \ {req},
                                 !.answered = IF req.id > @ THEN req.id ELSE @,
                                 !.isSearching = FALSE]
       IN  ui' = AfterUpdate(ui,
                    IF ok THEN [settled EXCEPT !.searchResults = req]
                    ELSE [settled EXCEPT !.error = TRUE, !.searchResults = NoResults])
    /\ UNCHANGED uiFrame

\* the observer effect of the last render is run
UiFlushEffects ==
    /\ ui.pc = "mounted"
    /\ ui.effectPending
    /\ ui' = Commit(ui)
    /\ UNCHANGED uiFrame

NextIndex ==
    \/ UiTimerFires
    \/ \E query \in UiQueries : UiSetSearchQuery(query)
    \/ UiClearSearch
    \/ \E type \in UiTypes : UiSetMediaType(type)
    \/ \E sort \in validSorts : UiSetSortOrder(sort)
    \/ UiScroll
    \/ \E ok \in BOOLEAN : UiPostsResponse(ok)
    \/ \E req \in ui.searchRequests, ok \in BOOLEAN : UiSearchResponse(req, ok)
    \/ UiFlushEffects

SpecIndex == InitIndex /\ [][NextIndex]_vars


\* nothing is under way: no request in flight, no timer set, no effect to run
UiSettled ==
    /\ ui.postsRequests = <<>>
    /\ ui.searchRequests = {}
    /\ ~ui.timer.armed
    /\ ~ui.effectPending

\* the posts on display are pages of the selected media type and sort order
ShowsSelection ==
    /\ ui.posts # <<>>
    /\ \A i \in DOMAIN ui.posts :
          /\ ui.posts[i].type = ui.mediaType
          /\ ui.posts[i].sort = ui.sortOrder

\* C27: in the posts index, after the media type or the sort order changed
\* while browsing, also while a posts request was in flight, the posts are
\* reloaded with the new selection: once nothing is under way any more and no
\* error is shown, the posts on display are those of the selected media type
\* and sort order, never those of a previous selection.
C27_SettledShowsSelection ==
    (UiSettled /\ Browsing(ui) /\ ~ui.error) => ShowsSelection

\* the results on display were answered no earlier than any other answer
\* received, and are those of the last request once none is in flight
LatestAnswerShown ==
    ui.searchResults.id # 0 =>
        /\ ui.searchResults.id >= ui.answered
        /\ ui.searchRequests = {} => ui.searchResults.id = ui.issued

\* C28: the search results held by the page come from the response to the
\* most recently issued search query: a response to an earlier query never
\* replaces the results of a later one, and no response fills the results
\* again after the query was cleared or shortened below 2 characters.
C28_LatestQueryWins ==
    /\ LatestAnswerShown
    /\ ui.cleared => ui.searchResults.id = 0

\* C29: at most one /api/posts request is in flight; a loadPosts call made
\* while a request is pending issues no request and changes no state; and the
\* in-flight flag is set exactly while a request is in flight, so it is
\* cleared after every request, answered or failed.
C29_OnePostsRequest ==
    /\ Len(ui.postsRequests) <= 1
    /\ ui.lastCall.pending => ~ui.lastCall.changed
    /\ ui.isLoadingRef <=> ui.postsRequests # <<>>

\* loadPosts was last called while a request was pending, and that request
\* has since failed
C29_Witness ==
    /\ ui.lastCall.pending
    /\ ui.error
    /\ ~ui.isLoadingRef
    /\ ui.postsRequests = <<>>
    /\ Len(ui.posts) = 1


---------------------------------------------------------------------------
(* POST /api/chat: search with the last message, then stream the answer *)

\* messages in one request body
MaxMessages == 2

\* hybridSearch(searchQuery, 5)
ChatTopK == 5

\* msg.parts: absent, or an array of parts
NoParts == [present |-> FALSE, value |-> <<>>]
Parts(value) == [present |-> TRUE, value |-> value]
TextPart(text) == [type |-> "text", text |-> text]
FilePart == [type |-> "file", text |-> <<>>]

\* the messages of the model: the prompt and content formats, the parts format
\* the Chat component sends, mixtures, and messages without text
ChatMessages ==
    { [prompt |-> Param(QueryGarden), content |-> Absent, parts |-> NoParts],
      [prompt |-> Absent, content |-> Param(QueryGarden), parts |-> NoParts],
      [prompt |-> Absent, content |-> Absent, parts |-> Parts(<<TextPart(QueryGarden)>>)],
      [prompt |-> Absent, content |-> Absent,
       parts |-> Parts(<<FilePart, TextPart(QueryLilly)>>)],
      [prompt |-> Param(QueryLilly), content |-> Param(QueryGarden), parts |-> NoParts],
      [prompt |-> Param(<<>>), content |-> Param(QueryLilly), parts |-> NoParts],
      [prompt |-> Param(QuerySpace), content |-> Absent, parts |-> NoParts],
      [prompt |-> Absent, content |-> Absent, parts |-> NoParts] }

\* request bodies: not JSON, the JSON null, another JSON value without a
\* messages array, JSON with one
ChatBodies ==
    { [json |-> FALSE, null |-> FALSE, isArray |-> FALSE, messages |-> <<>>],
      [json |-> TRUE, null |-> TRUE, isArray |-> FALSE, messages |-> <<>>],
      [json |-> TRUE, null |-> FALSE, isArray |-> FALSE, messages |-> <<>>] } \cup
    { [json |-> TRUE, null |-> FALSE, isArray |-> TRUE, messages |-> m] :
        m \in UNION { [1..n -> ChatMessages] : n \in 0..MaxMessages } }

\* the messages handed to the model: a prompt without parts becomes a text part
TransformMessages(messages) ==
    [i \in DOMAIN messages |->
        IF ~Falsy(messages[i].prompt) /\ ~messages[i].parts.present
        THEN [messages[i] EXCEPT !.parts = Parts(<<TextPart(messages[i].prompt.value)>>)]
        ELSE messages[i]]

\* lastMessage?.prompt || lastMessage?.content || ''
SearchQueryOf(messages) ==
    IF Len(messages) = 0 THEN <<>>
    ELSE LET lastMessage == messages[Len(messages)]
         IN  IF ~Falsy(lastMessage.prompt) THEN lastMessage.prompt.value
             ELSE IF ~Falsy(lastMessage.content) THEN lastMessage.content.value
             ELSE <<>>

\* the lines of postsContext, one for each search result; the date is the
\* instant the line formats, in seconds
PostsContext(searchResults) ==
    [i \in DOMAIN searchResults |->
        [n |-> i, title |-> searchResults[i].title,
         date |-> searchResults[i].creationTimestamp,
         kind |-> IF searchResults[i].isVideo THEN "Video" ELSE "Photo",
         uri |-> searchResults[i].uri]]

\* what hybridSearch can return for a query that is not blank
ChatSearchResults ==
    { <<>>,
      <<SearchResultOf(PostA, DoubleDiv(1, 61))>>,
      <<SearchResultOf(PostB, DoubleAdd(DoubleDiv(1, 61), DoubleDiv(1, 61))),
        SearchResultOf(PostA, DoubleDiv(1, 62))>> }

chatFrame == <<fuseVars, searchVars, gen, tok, pg, ui>>

InitChat ==
    /\ api \in { [pc |-> "request", route |-> "chat", body |-> b, googleKey |-> k,
                  status |-> 0, invoked |-> <<>>, transformedMessages |-> <<>>,
                  searchResults |-> <<>>, postsContext |-> <<>>] :
                 b \in ChatBodies, k \in BOOLEAN }
    /\ gen = Off
    /\ tok = Off
    /\ pg = Off
    /\ ui = Off
    /\ envKey = FALSE
    /\ embeddingsFile = NoFile
    /\ Fresh
    /\ FuseIdle

\* POST is called: it awaits request.json() and returns a pending promise;
\* neither the body nor the key has been looked at
ChatPost ==
    /\ api.pc = "request"
    /\ api.route = "chat"
    /\ api' = [api EXCEPT !.pc = "json"]
    /\ UNCHANGED chatFrame

\* request.json() settles, and POST runs up to its await of hybridSearch.  A
\* body that is not JSON rejects, and destructuring null throws: the catch
\* block answers 500.  The key is read here, after the body.
ChatBodyParsed ==
    /\ api.pc = "json"
    /\ api.route = "chat"
    /\ IF ~api.body.json \/ api.body.null
       THEN api' = [api EXCEPT !.pc = "done", !.status = 500]
       ELSE IF ~api.body.isArray
       THEN api' = [api EXCEPT !.pc = "done", !.status = 400]
       ELSE IF ~api.googleKey
       THEN api' = [api EXCEPT !.pc = "done", !.status = 500,
                               !.transformedMessages = TransformMessages(api.body.messages)]
       ELSE api' = [api EXCEPT
                       !.pc = "searching",
                       !.transformedMessages = TransformMessages(api.body.messages),
                       !.invoked = <<[fn |-> "hybridSearch",
                                      query |-> SearchQueryOf(api.body.messages),
                                      topK |-> ChatTopK]>>]
    /\ UNCHANGED chatFrame

\* hybridSearch returns, [] for a blank query: the system prompt gets the
\* posts context and the answer is streamed
ChatSearchReturns(results) ==
    /\ api.pc = "searching"
    /\ api.route = "chat"
    /\ IsEmptyQuery(api.invoked[1].query) => results = <<>>
    /\ api' = [api EXCEPT !.pc = "done", !.status = 200,
                          !.searchResults = results,
                          !.postsContext = PostsContext(results)]
    /\ UNCHANGED chatFrame

\* hybridSearch throws: the catch block answers 500
ChatSearchThrows ==
    /\ api.pc = "searching"
    /\ api.route = "chat"
    /\ ~IsEmptyQuery(api.invoked[1].query)
    /\ api' = [api EXCEPT !.pc = "done", !.status = 500]
    /\ UNCHANGED chatFrame

NextChat ==
    \/ ChatPost
    \/ ChatBodyParsed
    \/ \E results \in ChatSearchResults : ChatSearchReturns(results)
    \/ ChatSearchThrows

SpecChat == InitChat /\ [][NextChat]_vars

RECURSIVE TextOfParts(_)
\* the text of the text parts of a message
TextOfParts(parts) ==
    IF Len(parts) = 0 THEN <<>>
    ELSE (IF Head(parts).type = "text" THEN Head(parts).text ELSE <<>>)
         \o TextOfParts(Tail(parts))

\* the user text a message carries: its prompt, else its content, else the
\* text of its parts
UserText(msg) ==
    IF msg.prompt.present /\ Len(msg.prompt.value) > 0 THEN msg.prompt.value
    ELSE IF msg.content.present /\ Len(msg.content.value) > 0 THEN msg.content.value
    ELSE IF msg.parts.present THEN TextOfParts(msg.parts.value)
    ELSE <<>>

\* the request was accepted and answered, and its last message carries text
ChatAnsweredWithText ==
    /\ api.pc = "done"
    /\ api.status = 200
    /\ Len(api.body.messages) > 0
    /\ Len(UserText(api.body.messages[Len(api.body.messages)])) > 0

\* C30: for every accepted request to POST /api/chat whose last message
\* carries non-empty user text, as prompt, as content or as text parts,
\* hybridSearch is invoked with that text and topK = 5, and its results are
\* included in the system prompt.
C30_ChatSearchesLastText ==
    ChatAnsweredWithText =>
        /\ api.invoked = <<[fn |-> "hybridSearch",
                            query |-> UserText(api.body.messages[Len(api.body.messages)]),
                            topK |-> 5]>>
        /\ Len(api.postsContext) = Len(api.searchResults)
        /\ \A i \in DOMAIN api.searchResults :
              /\ api.postsContext[i].title = api.searchResults[i].title
              /\ api.postsContext[i].uri = api.searchResults[i].uri

============================================================================
